---- MODULE Spec2Model ----
(***************************************************************************)
(* A model of the system scheduler of hive-ecs: construction of the        *)
(* per-phase system graph (GraphInfo::new), the sequential and the         *)
(* parallel executor, and the phase schedule (Schedule / Systems); and of   *)
(* its archetype storage (World, Archetypes, Table, Column) with the change *)
(* stamps and the queries that read them.                                    *)
(*                                                                         *)
(* Indices are 0-based as in the Rust source: a Vec of n elements is a     *)
(* function with domain 0..n-1, a FixedBitSet is the set of its one bits.   *)
(***************************************************************************)
EXTENDS Integers, Sequences, FiniteSets, TLC

\* ------------------------------------------------------------------ bounds
\* Largest number of systems submitted to the phase.
MaxSystems == 3

\* Largest number of phases added to the schedule.
MaxPhases == 3
\* Largest number of sub-phase edges, and of phase ordering edges, declared.
MaxSubPhases == 3
MaxOrderings == 1

\* ------------------------------------------------- system arguments (kinds)
\* Every modelled system takes one argument. The kinds are the SystemArg
\* impls of the source: Query<&A>, Query<&mut A>, NonSendMut<R>, &World.
ArgKinds == {"QueryRead", "QueryWrite", "NonSendMut", "World"}

\* SystemAccess values: [kind |-> "Component"/"Resource", id, access].
ReadQuery_access == {[kind |-> "Component", id |-> 0, access |-> "Read"]}

WriteQuery_access == {[kind |-> "Component", id |-> 0, access |-> "Write"]}

NonSendMut_access == {[kind |-> "Resource", id |-> 0, access |-> "Write"]}

\* SystemArg::access: the default is vec![].
SystemArg_access(arg) ==
    CASE arg = "QueryRead" -> ReadQuery_access
      [] arg = "QueryWrite" -> WriteQuery_access
      [] arg = "NonSendMut" -> NonSendMut_access
      [] OTHER -> {}

\* SystemArg::send: true by default, false for NonSend / NonSendMut.
SystemArg_send(arg) == arg # "NonSendMut"

\* SystemArg::exclusive: false by default, true for &World (and Spawner).
SystemArg_exclusive(arg) == arg = "World"

\* SystemConfig::into_system_node: the node keeps the explicit dependencies
\* and the access list; meta.send / meta.exclusive are copied from the config.
into_system_node(config) ==
    [dependencies |-> config.dependencies,
     access       |-> SystemArg_access(config.arg),
     send         |-> SystemArg_send(config.arg),
     exclusive    |-> SystemArg_exclusive(config.arg),
     id           |-> config.id,
     name         |-> config.name]

\* ------------------------------------------------------------ dependencies
\* A conflict is a (read, write) or (write, write) pair on the same id of the
\* same kind.
Conflicts(a, b) ==
    \E x \in a, y \in b :
        /\ x.kind = y.kind
        /\ x.id = y.id
        /\ (x.access = "Write" \/ y.access = "Write")

\* SystemNode::has_dependency(node, dep_node): node depends on dep_node
\* explicitly, or their accesses conflict.
has_dependency(node, dep_node) ==
    \/ dep_node.id \in node.dependencies
    \/ Conflicts(node.access, dep_node.access)

\* GraphInfo::new. `nodes.iter().rev().enumerate()` pairs index k with
\* nodes[n-1-k]; `nodes.iter().take(index).enumerate()` pairs dep_index with
\* nodes[dep_index] for dep_index < index.
GraphInfo_new(configs) ==
    LET n     == Cardinality(DOMAIN configs)
        nodes == [i \in 0..(n-1) |-> into_system_node(configs[i])]
        edge(dep_index, index) ==
            /\ dep_index < index
            /\ has_dependency(nodes[n - 1 - index], nodes[dep_index])
    IN [nodes        |-> nodes,
        dependents   |-> [d \in 0..(n-1) |-> {i \in 0..(n-1) : edge(d, i)}],
        dependencies |-> [i \in 0..(n-1) |->
                              Cardinality({d \in 0..(n-1) : edge(d, i)})]]

\* FixedBitSet::ones: the set bits in ascending order.
RECURSIVE ones(_)
ones(bits) ==
    IF bits = {} THEN <<>>
    ELSE LET m == CHOOSE x \in bits : \A y \in bits : x <= y
         IN <<m>> \o ones(bits \ {m})

\* ------------------------------------------------------ sequential executor
\* The inner loop of SequentialExecutor::new without the test
\* `dependencies[node_index] == 0`: a popped node is visited at once.
RECURSIVE SequentialExecutor_drain_unchecked(_, _)
SequentialExecutor_drain_unchecked(dependents, st) ==
    IF st.stack = <<>> THEN st
    ELSE
        LET node_index == st.stack[Len(st.stack)]
            popped     == SubSeq(st.stack, 1, Len(st.stack) - 1)
        IN IF node_index \in st.visited
           THEN SequentialExecutor_drain_unchecked(dependents,
                    [st EXCEPT !.stack = popped])
           ELSE SequentialExecutor_drain_unchecked(dependents,
                    [order        |-> Append(st.order, node_index),
                     visited      |-> st.visited \cup {node_index},
                     stack        |-> popped \o ones(dependents[node_index]),
                     dependencies |-> st.dependencies])

\* The inner `while let Some(node_index) = stack.pop()` loop of
\* SequentialExecutor::new; st = [order, visited, stack, dependencies].
RECURSIVE SequentialExecutor_drain(_, _)
SequentialExecutor_drain(dependents, st) ==
    IF st.stack = <<>> THEN st
    ELSE
        LET node_index == st.stack[Len(st.stack)]
            popped     == SubSeq(st.stack, 1, Len(st.stack) - 1)
        IN IF node_index \in st.visited
           THEN SequentialExecutor_drain(dependents, [st EXCEPT !.stack = popped])
           ELSE IF st.dependencies[node_index] = 0
           THEN SequentialExecutor_drain(dependents,
                    [order        |-> Append(st.order, node_index),
                     visited      |-> st.visited \cup {node_index},
                     stack        |-> popped \o ones(dependents[node_index]),
                     dependencies |-> [d \in DOMAIN st.dependencies |->
                                          IF d \in dependents[node_index]
                                          THEN st.dependencies[d] - 1
                                          ELSE st.dependencies[d]]])
           ELSE SequentialExecutor_drain(dependents, [st EXCEPT !.stack = popped])

\* The outer `for index in 0..nodes.len()` loop of SequentialExecutor::new.
RECURSIVE SequentialExecutor_outer(_, _, _, _)
SequentialExecutor_outer(dependents, n, index, st) ==
    IF index >= n THEN st
    ELSE SequentialExecutor_outer(dependents, n, index + 1,
             SequentialExecutor_drain(dependents,
                 [st EXCEPT !.stack = Append(st.stack, index)]))

\* SequentialExecutor::new: the run order computed from a GraphInfo.
SequentialExecutor_new(info) ==
    LET n == Cardinality(DOMAIN info.nodes)
    IN SequentialExecutor_outer(info.dependents, n, 0,
           [order        |-> <<>>,
            visited      |-> {},
            stack        |-> <<>>,
            dependencies |-> info.dependencies]).order

\* -------------------------------------------------------- parallel executor
\* ParallelExecutor::new: the same pair loop as GraphInfo::new, then the
\* initial ready set and the initial ExecutionState.
ParallelExecutor_new(configs) ==
    LET n     == Cardinality(DOMAIN configs)
        nodes == [i \in 0..(n-1) |-> into_system_node(configs[i])]
        edge(dep_index, index) ==
            /\ dep_index < index
            /\ has_dependency(nodes[n - 1 - index], nodes[dep_index])
        dependencies == [i \in 0..(n-1) |->
                            Cardinality({d \in 0..(n-1) : edge(d, i)})]
        initial_systems == {i \in 0..(n-1) : dependencies[i] = 0}
    IN [systems         |-> nodes,
        dependents      |-> [d \in 0..(n-1) |-> {i \in 0..(n-1) : edge(d, i)}],
        dependencies    |-> dependencies,
        initial_systems |-> initial_systems,
        order           |-> <<>>]

\* The ExecutionState that ParallelExecutor::new puts behind the mutex: the
\* in-degrees, the initial ready set as the queue, nothing completed.
ExecutionState_new(executor) ==
    [dependencies |-> executor.dependencies,
     queue        |-> executor.initial_systems,
     completed    |-> {}]

\* A reset that clears completed and restores the in-degrees but leaves the
\* queue as the run left it.
ParallelExecutor_reset_leaving_queue(executor) ==
    [dependencies |-> executor.dependencies,
     queue        |-> {},
     completed    |-> {}]

\* ParallelExecutor::reset: completed cleared, the queue a clone of
\* initial_systems, the in-degrees a copy of dependencies.
ParallelExecutor_reset(executor) ==
    [dependencies |-> executor.dependencies,
     queue        |-> executor.initial_systems,
     completed    |-> {}]

\* RunMode::create_executor on the GraphInfo that PhaseConfig::build made.
RunMode_create_executor(mode, configs) ==
    IF mode = "Parallel"
    THEN ParallelExecutor_new(configs)
    ELSE LET info == GraphInfo_new(configs)
         IN [systems         |-> info.nodes,
             dependents      |-> info.dependents,
             dependencies    |-> info.dependencies,
             initial_systems |-> {},
             order           |-> SequentialExecutor_new(info)]

\* ExecutionResult values sent over the channel.
Run(index) == [type |-> "Run", index |-> index]

Done == [type |-> "Done", index |-> -1]

\* FixedBitSet::is_full for a bitset of capacity n (true when n = 0).
is_full(bits, n) == \A i \in 0..(n-1) : i \in bits

\* spawn_systems with the send flag ignored: every queued system is spawned
\* on a worker thread.
spawn_systems_ignoring_send(systems, ctx) ==
    LET n == Cardinality(DOMAIN systems)
        q == ctx.state.queue
    IN IF is_full(ctx.state.completed, n)
       THEN [ctx EXCEPT !.chan = Append(ctx.chan, Done)]
       ELSE [state  |-> [ctx.state EXCEPT !.queue = {}],
             chan   |-> ctx.chan,
             status |-> [i \in DOMAIN ctx.status |->
                            IF i \in q THEN "spawned" ELSE ctx.status[i]]]

\* spawn_systems with the completion test reading "any" instead of "all":
\* Done is sent as soon as one system has completed.
spawn_systems_done_on_any(systems, ctx) ==
    LET n == Cardinality(DOMAIN systems)
        q == ctx.state.queue
    IN IF n = 0 \/ ctx.state.completed # {}
       THEN [ctx EXCEPT !.chan = Append(ctx.chan, Done)]
       ELSE [state  |-> [ctx.state EXCEPT !.queue = {}],
             chan   |-> ctx.chan \o
                          [k \in 1..Cardinality({i \in q : ~systems[i].send}) |->
                              Run(ones({i \in q : ~systems[i].send})[k])],
             status |-> [i \in DOMAIN ctx.status |->
                            IF i \in q
                            THEN IF systems[i].send THEN "spawned" ELSE "queued"
                            ELSE ctx.status[i]]]

\* ExecutionContext::spawn_systems, run while the state mutex is held:
\* ctx = [state, chan, status]. A send system is spawned on a scoped worker
\* thread ("spawned"); a non-send one is sent to the caller's channel
\* ("queued").
spawn_systems(systems, ctx) ==
    LET n == Cardinality(DOMAIN systems)
        q == ctx.state.queue
    IN IF is_full(ctx.state.completed, n)
       THEN [ctx EXCEPT !.chan = Append(ctx.chan, Done)]
       ELSE [state  |-> [ctx.state EXCEPT !.queue = {}],
             chan   |-> ctx.chan \o
                          [k \in 1..Cardinality({i \in q : ~systems[i].send}) |->
                              Run(ones({i \in q : ~systems[i].send})[k])],
             status |-> [i \in DOMAIN ctx.status |->
                            IF i \in q
                            THEN IF systems[i].send THEN "spawned" ELSE "queued"
                            ELSE ctx.status[i]]]

\* system_done that queues every dependent without waiting for its
\* in-degree to reach zero.
system_done_eager(dependents, state, index) ==
    [dependencies |-> [d \in DOMAIN state.dependencies |->
                          IF d \in dependents[index]
                          THEN state.dependencies[d] - 1
                          ELSE state.dependencies[d]],
     queue        |-> state.queue \cup dependents[index],
     completed    |-> state.completed \cup {index}]

\* ExecutionContext::system_done up to the call of spawn_systems: mark the
\* system completed, decrement the in-degree of its dependents and queue the
\* ones that reach zero.
system_done(dependents, state, index) ==
    LET dec == [d \in DOMAIN state.dependencies |->
                   IF d \in dependents[index]
                   THEN state.dependencies[d] - 1
                   ELSE state.dependencies[d]]
    IN [dependencies |-> dec,
        queue        |-> state.queue \cup
                            {d \in dependents[index] : dec[d] = 0},
        completed    |-> state.completed \cup {index}]

\* ------------------------------------------------------------------ phases
\* The nodes reachable from the set S along at most k edges of E.
RECURSIVE ReachIn(_, _, _)
ReachIn(E, S, k) ==
    IF k = 0 THEN S
    ELSE ReachIn(E, S \cup {e[2] : e \in {x \in E : x[1] \in S}}, k - 1)

\* IndexDag::dependents()[index]: the nodes that add_dependency(index, _)
\* recorded.
IndexDag_dependents(E, index) == {e[2] : e \in {x \in E : x[1] = index}}

\* The edges E hold a cycle through a node of N.
Cyclic(E, N) ==
    \E v \in N : v \in ReachIn(E, IndexDag_dependents(E, v), Cardinality(N))

\* IndexDag::build fails when the edges of its n nodes hold a cycle.
IndexDag_cyclic(E, n) == Cyclic(E, 0..(n-1))

\* Schedule::build: a cycle of the hierarchy and a cycle of the phase
\* ordering are both reported as CyclicHierarchy; nothing else fails.
Schedule_build(hier, ord, n) ==
    IF IndexDag_cyclic(hier, n) THEN "CyclicHierarchy"
    ELSE IF IndexDag_cyclic(ord, n) THEN "CyclicHierarchy"
    ELSE "Ok"

\* Schedule::add_phase: ref < n names a phase that is in the map, ref = n a
\* phase that is not, which becomes node n.
Schedule_add_phase(n, ref) ==
    IF ref < n THEN [index |-> ref, n |-> n] ELSE [index |-> n, n |-> n + 1]

\* PhaseConfig::new gives a new phase no parent.
Schedule_parents(par, n) ==
    [i \in 0..(n-1) |-> IF i \in DOMAIN par THEN par[i] ELSE -1]

\* The loop of Systems::run without the descent into the sub-phases.
Systems_run_step_no_descent(hier, stk) ==
    [ran   |-> stk[Len(stk)],
     stack |-> SubSeq(stk, 1, Len(stk) - 1)]

\* One iteration of the loop of Systems::run: pop a phase index, run the
\* phase (PhaseNode::run invokes its executor), push its sub-phases in
\* ascending index order.
Systems_run_step(hier, stk) ==
    LET index == stk[Len(stk)]
    IN [ran   |-> index,
        stack |-> SubSeq(stk, 1, Len(stk) - 1) \o
                      ones(IndexDag_dependents(hier, index))]

\* ------------------------------------------------------------------- state
VARIABLES
    configs,      \* PhaseConfig.configs: the submitted SystemConfigs
    mode,         \* Schedule.mode: "Sequential" or "Parallel"
    buildResult,  \* "None" before Schedule::build, then its result
    executor,     \* the executor of the phase (PhaseNode.executor)
    state,        \* ParallelExecutor.state: the shared ExecutionState
    chan,         \* the mpsc channel of ExecutionResult of one execute call
    status,       \* per system: where it is in the current execute call
    thread,       \* per system: the thread its body ran on
    count,        \* per system: times its body was started in this call
    mainpc,       \* position of the thread that calls execute
    runlog,       \* sequential executor: the systems run, in order
    nphases,      \* Schedule.phases: the number of nodes (phase indices 0..)
    hierarchy,    \* Schedule.hierarchy: edges <<main, sub>>
    ordering,     \* Schedule.phases: edges <<phase, target>> of run_before
    parent,       \* PhaseConfig.parent per phase index (-1 is None)
    stack,        \* Systems::run: the stack of phase indices
    runphase,     \* Systems::run: the index of the phase it was called with
    execlog,      \* Systems::run: the phases whose executor was invoked
    schedpc,      \* position of the user of the Schedule / Systems
    world,        \* the World: archetypes, maps, components, entities, frame
    panicked,     \* a World operation has panicked and left the world as is
    live,         \* the entities spawned and not yet despawned
    system,       \* one system over the world: its SystemMeta.frame
    qres,         \* what the last execution of the system's query produced
    col,          \* a Column of a table: its Blob, its length, its stamps
    blobs,        \* two Blobs of one element type: elements, length, status
    drops,        \* per element ever made: the calls of its drop function
    sparse,       \* a SparseSet: values, indices and the sparse array
    stored,       \* per key of the SparseSet: the value last inserted, 0 if none
    resources,    \* World.resources: the cells and the TypeId map
    events,       \* an Events<E>: the write and the read buffer
    eventlog,     \* the calls made on the Events<E>, in order
    commands,     \* per system its Commands, and the commands applied
    blob2,        \* a v2::Blob: its bytes as elements, the capacity, a reference list
    bitsets       \* two Bitsets: the words of each

schedVars == <<nphases, hierarchy, ordering, parent, stack, runphase, execlog,
               schedpc>>

storeVars == <<col, blobs, drops, sparse, stored, resources, events,
               eventlog, commands, blob2, bitsets>>

worldVars == <<world, panicked, live, system, qres, storeVars>>

vars == <<configs, mode, buildResult, executor, state, chan, status, thread,
          count, mainpc, runlog, schedVars, worldVars>>

\* Entities::new.
Entities_new == [current |-> 0, free |-> <<>>, generations |-> <<>>]

\* The empty bit set, FixedBitSet::new.
FixedBitSet_new == [len |-> 0, bits |-> {}]

\* TableBuilder::new().build(): no entity, no column.
Table_empty == [entities |-> <<>>, columns |-> <<>>]

\* World::new with Archetypes::new: the empty archetype with id 0, mapped
\* from the empty id list; no component, no entity; the frame is Frame(1).
World_new ==
    [archetypes    |-> <<[id |-> 0, table |-> Table_empty,
                          bitset |-> FixedBitSet_new]>>,
     archetype_map |-> (<<>> :> 0),
     entity_map    |-> <<>>,
     components    |-> 0,
     bitset        |-> FixedBitSet_new,
     entities      |-> Entities_new,
     frame         |-> 1]

\* No system has been built.
NoSystem ==
    [built |-> FALSE, frame |-> 0]

\* No query has been executed on the current world.
NoQuery == [kind |-> "none"]

\* ------------------------------------------------------------ the stores
\* Bounds of the stores: the rows of a column, the elements made for the
\* Blobs, the keys and the values of the SparseSet, the resource types and
\* values, the calls on the Events, the systems with a CommandBuffer and
\* the commands they enqueue.
MaxColumnLen == 3
MaxElements == 3
MaxKeys == 3
MaxValues == 2
MaxResourceTypes == 3
MaxResourceValues == 2
MaxEventCalls == 7
MaxCommandSystems == 2
MaxCommands == 3

\* Column::new: Blob::new and no stamp.
Column_new == [data |-> <<>>, length |-> 0, frames |-> <<>>]

\* Blob::new::<T> for a T that needs drop: no element. A Blob is "alive"
\* until it is "dropped"; "panicked" when an operation on it panicked and it
\* waits for the unwinding to drop it; "aborted" when the process ended.
Blob_new == [data |-> <<>>, length |-> 0, status |-> "alive"]

\* SparseSet::new; panicked records that an operation on the set panicked.
SparseSet_new ==
    [values |-> <<>>, indices |-> <<>>, sparse |-> <<>>, panicked |-> FALSE]

\* Resources::new.
Resources_new == [resources |-> <<>>, map |-> <<>>]

\* Events::new.
Events_new == [write |-> <<>>, read |-> <<>>]

\* Commands::new for every system with a CommandBuffer (SystemArg::init),
\* and no command applied to the world.
Commands_new ==
    [state |-> [s \in 0..(MaxCommandSystems - 1) |-> <<>>], applied |-> <<>>]

\* v2::Blob::new::<T>: no byte, no capacity (vec![]). The model keeps the
\* bytes as whole elements and, next to the Blob, the list a Vec<T> would
\* hold after the same calls and the value the last call returned (0 is none).
Blob2_new == [data |-> <<>>, cap |-> 0, status |-> "alive", list |-> <<>>,
              ret |-> 0, expected |-> 0]

\* Bitset::new: no word.
Bitset_new == <<>>

\* The stores as constructed.
StoresNew ==
    /\ col = Column_new
    /\ blobs = [b \in {"a", "b"} |-> Blob_new]
    /\ drops = <<>>
    /\ sparse = SparseSet_new
    /\ stored = [k \in 0..(MaxKeys - 1) |-> 0]
    /\ resources = Resources_new
    /\ events = Events_new
    /\ eventlog = <<>>
    /\ commands = Commands_new
    /\ blob2 = Blob2_new
    /\ bitsets = [t \in {"a", "b"} |-> Bitset_new]

\* The world as the schedule finds it: new and untouched.
WorldUntouched ==
    /\ world = World_new
    /\ panicked = FALSE
    /\ live = {}
    /\ system = NoSystem
    /\ qres = NoQuery
    /\ StoresNew

NumSystems == Cardinality(DOMAIN configs)

Systems == 0..(NumSystems - 1)

\* The ways of submitting n systems: the set of the indices at which a new
\* call of Schedule::add_systems starts. The systems of one call are
\* chained with before/after, the only combinators of IntoSystemConfigs.
Submissions(n) == SUBSET (1..(n-1))

\* IntoSystemConfigs::before pushes the ids of all the systems before into
\* the dependencies of every system after and places them ahead in the Vec:
\* a system depends on the systems ahead of it in its call.
before(calls, id) ==
    {dep \in 0..(id-1) : \A c \in calls : ~(dep < c /\ c <= id)}

NoExecutor ==
    [systems |-> <<>>, dependents |-> <<>>, dependencies |-> <<>>,
     initial_systems |-> {}, order |-> <<>>]

NoState == [dependencies |-> <<>>, queue |-> {}, completed |-> {}]

\* Schedule::add_systems has filled the one phase of the schedule. Every
\* system is one of four functions, one per argument kind, and its name
\* (type_name of the function) is that of its kind; the same function may be
\* submitted more than once, each time with a new SystemId.
Init ==
    /\ \E n \in 0..MaxSystems :
       \E args \in [0..(n-1) -> ArgKinds] :
       \E calls \in Submissions(n) :
           configs = [i \in 0..(n-1) |->
                         [id |-> i, name |-> args[i], arg |-> args[i],
                          dependencies |-> before(calls, i)]]
    /\ WorldUntouched
    /\ mode \in {"Sequential", "Parallel"}
    /\ buildResult = "None"
    /\ executor = NoExecutor
    /\ state = NoState
    /\ chan = <<>>
    /\ status = [i \in Systems |-> "idle"]
    /\ thread = [i \in Systems |-> "none"]
    /\ count = [i \in Systems |-> 0]
    /\ mainpc = "unbuilt"
    /\ runlog = <<>>
    /\ nphases = 1
    /\ hierarchy = {}
    /\ ordering = {}
    /\ parent = [i \in {0} |-> -1]
    /\ stack = <<>>
    /\ runphase = -1
    /\ execlog = <<>>
    /\ schedpc = "phase"

\* ----------------------------------------------------------------- actions
\* Schedule::build for a schedule that holds one phase with the submitted
\* systems: the PhaseConfig is built into its executor, and the result is
\* that of the two IndexDag::build calls.
Build ==
    /\ mainpc = "unbuilt"
    /\ executor' = RunMode_create_executor(mode, configs)
    /\ state' = IF mode = "Parallel"
                THEN ExecutionState_new(executor')
                ELSE NoState
    /\ buildResult' = Schedule_build(hierarchy, ordering, nphases)
    /\ mainpc' = "idle"
    /\ UNCHANGED <<worldVars, schedVars, configs, mode, chan, status, thread, count, runlog>>

\* ParallelExecutor::execute up to the receive loop: a new channel, then
\* ExecutionContext::execute locks the state and calls spawn_systems.
Execute ==
    /\ mainpc = "idle"
    /\ mode = "Parallel"
    /\ LET ctx == spawn_systems(executor.systems,
                      [state  |-> state,
                       chan   |-> <<>>,
                       status |-> [i \in Systems |-> "idle"]])
       IN /\ state' = ctx.state
          /\ chan' = ctx.chan
          /\ status' = ctx.status
    /\ thread' = [i \in Systems |-> "none"]
    /\ count' = [i \in Systems |-> 0]
    /\ mainpc' = "recv"
    /\ UNCHANGED <<worldVars, schedVars, configs, mode, buildResult, executor, runlog>>

\* A scoped worker thread starts: run_system calls the system's body.
WorkerStart(i) ==
    /\ status[i] = "spawned"
    /\ status' = [status EXCEPT ![i] = "running"]
    /\ thread' = [thread EXCEPT ![i] = "worker"]
    /\ count' = [count EXCEPT ![i] = @ + 1]
    /\ UNCHANGED <<worldVars, schedVars, configs, mode, buildResult, executor, state, chan, mainpc,
                   runlog>>

\* The receive loop of ParallelExecutor::execute takes the next message:
\* Run(index) runs the system inline, Done leaves the loop.
MainRecv ==
    /\ mainpc = "recv"
    /\ chan # <<>>
    /\ chan' = Tail(chan)
    /\ IF Head(chan).type = "Run"
       THEN /\ status' = [status EXCEPT ![Head(chan).index] = "running"]
            /\ thread' = [thread EXCEPT ![Head(chan).index] = "main"]
            /\ count' = [count EXCEPT ![Head(chan).index] = @ + 1]
            /\ mainpc' = "run"
       ELSE /\ mainpc' = "join"
            /\ UNCHANGED <<status, thread, count>>
    /\ UNCHANGED <<worldVars, schedVars, configs, mode, buildResult, executor, state, runlog>>

\* The body of system i returns; run_system goes on to system_done.
BodyReturn(i) ==
    /\ status[i] = "running"
    /\ status' = [status EXCEPT ![i] = "returned"]
    /\ UNCHANGED <<worldVars, schedVars, configs, mode, buildResult, executor, state, chan, thread,
                   count, mainpc, runlog>>

\* ExecutionContext::system_done, atomic under the state mutex.
SystemDone(i) ==
    /\ status[i] = "returned"
    /\ LET ctx == spawn_systems(executor.systems,
                      [state  |-> system_done(executor.dependents, state, i),
                       chan   |-> chan,
                       status |-> [status EXCEPT ![i] = "done"]])
       IN /\ state' = ctx.state
          /\ chan' = ctx.chan
          /\ status' = ctx.status
    /\ mainpc' = IF thread[i] = "main" /\ mainpc = "run" THEN "recv" ELSE mainpc
    /\ UNCHANGED <<worldVars, schedVars, configs, mode, buildResult, executor, thread, count, runlog>>

\* A scoped thread is alive: spawned and not yet through system_done.
Alive(i) == thread[i] # "main" /\ status[i] \in {"spawned", "running", "returned"}

\* The end of std::thread::scope (all scoped threads joined), then
\* ParallelExecutor::reset and the return of execute.
MainJoin ==
    /\ mainpc = "join"
    /\ \A i \in Systems : ~Alive(i)
    /\ state' = ParallelExecutor_reset(executor)
    /\ mainpc' = "returned"
    /\ UNCHANGED <<worldVars, schedVars, configs, mode, buildResult, executor, chan, status, thread,
                   count, runlog>>

\* SequentialExecutor::execute is called.
SeqExecute ==
    /\ mainpc = "idle"
    /\ mode = "Sequential"
    /\ runlog' = <<>>
    /\ count' = [i \in Systems |-> 0]
    /\ mainpc' = "seq"
    /\ UNCHANGED <<worldVars, schedVars, configs, mode, buildResult, executor, state, chan, status,
                   thread>>

\* One iteration of `for index in &self.order`: the system runs to its end.
SeqStep ==
    /\ mainpc = "seq"
    /\ Len(runlog) < Len(executor.order)
    /\ LET index == executor.order[Len(runlog) + 1]
       IN /\ runlog' = Append(runlog, index)
          /\ count' = [count EXCEPT ![index] = @ + 1]
          /\ thread' = [thread EXCEPT ![index] = "main"]
          /\ status' = [status EXCEPT ![index] = "done"]
    /\ UNCHANGED <<worldVars, schedVars, configs, mode, buildResult, executor, state, chan, mainpc>>

\* The loop of SequentialExecutor::execute ends and execute returns.
SeqReturn ==
    /\ mainpc = "seq"
    /\ Len(runlog) = Len(executor.order)
    /\ mainpc' = "returned"
    /\ UNCHANGED <<worldVars, schedVars, configs, mode, buildResult, executor, state, chan, status,
                   thread, count, runlog>>

\* The caller may call execute again (Systems::run on a later frame).
Again ==
    /\ mainpc = "returned"
    /\ mainpc' = "idle"
    /\ UNCHANGED <<worldVars, schedVars, configs, mode, buildResult, executor, state, chan, status,
                   thread, count, runlog>>

\* The body of system i panics: run_system unwinds and system_done is never
\* called. On a worker the scoped thread ends; on the caller the panic
\* unwinds into std::thread::scope.
Panic(i) ==
    /\ status[i] = "running"
    /\ status' = [status EXCEPT ![i] = "panicked"]
    /\ mainpc' = IF thread[i] = "main" THEN "unwinding" ELSE mainpc
    /\ UNCHANGED <<worldVars, schedVars, configs, mode, buildResult, executor, state, chan, thread,
                   count, runlog>>

\* std::thread::scope, unwinding on the caller, joins every scoped thread
\* and then resumes the panic: execute ends without reset.
MainUnwind ==
    /\ mainpc = "unwinding"
    /\ \A i \in Systems : ~Alive(i)
    /\ mainpc' = "unwound"
    /\ UNCHANGED <<worldVars, schedVars, configs, mode, buildResult, executor, state, chan, status,
                   thread, count, runlog>>

Next ==
    \/ Build
    \/ Execute
    \/ \E i \in Systems : WorkerStart(i)
    \/ MainRecv
    \/ \E i \in Systems : BodyReturn(i)
    \/ \E i \in Systems : SystemDone(i)
    \/ MainJoin
    \/ SeqExecute
    \/ SeqStep
    \/ SeqReturn
    \/ Again

Spec == Init /\ [][Next]_vars

\* The steps of the threads of one execute call. The operating system
\* schedules every runnable thread and the bodies of the systems return, so
\* a thread step that stays possible is eventually taken.
ThreadStep ==
    \/ MainRecv
    \/ MainJoin
    \/ \E i \in Systems : WorkerStart(i)
    \/ \E i \in Systems : BodyReturn(i)
    \/ \E i \in Systems : SystemDone(i)

FairSpec == Init /\ [][Next]_vars /\ WF_vars(ThreadStep)

\* The executor when the body of a system may panic.
NextPanic ==
    \/ Next
    \/ \E i \in Systems : mode = "Parallel" /\ Panic(i)
    \/ MainUnwind

SpecPanic == Init /\ [][NextPanic]_vars

\* ------------------------------------------------------- the phase schedule
execVars == <<configs, mode, executor, state, chan, status, thread, count,
              mainpc, runlog>>

\* Schedule::new: no phase, no edge. AppBuilder::new picks RunMode::Sequential.
InitSched ==
    /\ WorldUntouched
    /\ configs = <<>>
    /\ mode = "Sequential"
    /\ buildResult = "None"
    /\ executor = NoExecutor
    /\ state = NoState
    /\ chan = <<>>
    /\ status = <<>>
    /\ thread = <<>>
    /\ count = <<>>
    /\ mainpc = "schedule"
    /\ runlog = <<>>
    /\ nphases = 0
    /\ hierarchy = {}
    /\ ordering = {}
    /\ parent = <<>>
    /\ stack = <<>>
    /\ runphase = -1
    /\ execlog = <<>>
    /\ schedpc = "config"

\* Schedule::add_phase with a phase that is not in the map yet.
AddPhase ==
    /\ schedpc = "config"
    /\ nphases < MaxPhases
    /\ nphases' = nphases + 1
    /\ parent' = Schedule_parents(parent, nphases')
    /\ UNCHANGED <<worldVars, execVars, runphase, buildResult, hierarchy, ordering, stack, execlog,
                   schedpc>>

\* Schedule::add_sub_phase(main, sub).
AddSubPhase(main, sub) ==
    /\ schedpc = "config"
    /\ Cardinality(hierarchy) < MaxSubPhases
    /\ LET m  == Schedule_add_phase(nphases, main)
           sb == Schedule_add_phase(m.n, sub)
       IN /\ sb.n <= MaxPhases
          /\ nphases' = sb.n
          /\ parent' = Schedule_parents(parent, sb.n)
          /\ hierarchy' = hierarchy \cup {<<m.index, sb.index>>}
    /\ UNCHANGED <<worldVars, execVars, runphase, buildResult, ordering, stack, execlog, schedpc>>

\* Schedule::run_before(phase, target): the ordering edge, then the phase
\* is moved under the parent of the target.
RunBefore(phase, target) ==
    /\ schedpc = "config"
    /\ Cardinality(ordering) < MaxOrderings
    /\ LET p   == Schedule_add_phase(nphases, phase)
           t   == Schedule_add_phase(p.n, target)
           par == Schedule_parents(parent, t.n)
           removed == IF par[p.index] # -1
                      THEN hierarchy \ {<<par[p.index], p.index>>}
                      ELSE hierarchy
           newpar  == par[t.index]
       IN /\ t.n <= MaxPhases
          /\ nphases' = t.n
          /\ ordering' = ordering \cup {<<p.index, t.index>>}
          /\ parent' = [par EXCEPT ![p.index] = newpar]
          /\ hierarchy' = IF newpar # -1
                          THEN removed \cup {<<newpar, p.index>>}
                          ELSE removed
    /\ UNCHANGED <<worldVars, execVars, runphase, buildResult, stack, execlog, schedpc>>

\* Schedule::run_after(phase, target) is run_before(target, phase).
RunAfter(phase, target) == RunBefore(target, phase)

\* Schedule::build.
SchedBuild ==
    /\ schedpc = "config"
    /\ buildResult' = Schedule_build(hierarchy, ordering, nphases)
    /\ schedpc' = IF buildResult' = "Ok" THEN "built" ELSE "failed"
    /\ UNCHANGED <<worldVars, execVars, runphase, nphases, hierarchy, ordering, parent, stack,
                   execlog>>

\* Systems::run(phase) for a phase of the map: the stack starts with it.
RunCall(phase) ==
    /\ schedpc \in {"built", "ran"}
    /\ phase \in 0..(nphases - 1)
    /\ stack' = <<phase>>
    /\ runphase' = phase
    /\ execlog' = <<>>
    /\ schedpc' = "running"
    /\ UNCHANGED <<worldVars, execVars, buildResult, nphases, hierarchy, ordering, parent>>

\* One iteration of `while let Some(index) = stack.pop()`.
RunStep ==
    /\ schedpc = "running"
    /\ stack # <<>>
    /\ LET step == Systems_run_step(hierarchy, stack)
       IN /\ execlog' = Append(execlog, step.ran)
          /\ stack' = step.stack
    /\ UNCHANGED <<worldVars, execVars, runphase, buildResult, nphases, hierarchy, ordering, parent,
                   schedpc>>

\* The stack is empty: Systems::run returns.
RunReturn ==
    /\ schedpc = "running"
    /\ stack = <<>>
    /\ schedpc' = "ran"
    /\ UNCHANGED <<worldVars, execVars, runphase, buildResult, nphases, hierarchy, ordering, parent,
                   stack, execlog>>

NextSched ==
    \/ AddPhase
    \/ \E main, sub \in 0..MaxPhases : AddSubPhase(main, sub)
    \/ \E phase, target \in 0..MaxPhases : RunBefore(phase, target)
    \/ \E phase, target \in 0..MaxPhases : RunAfter(phase, target)
    \/ SchedBuild
    \/ \E phase \in 0..MaxPhases : RunCall(phase)
    \/ RunStep
    \/ RunReturn

SpecSched == InitSched /\ [][NextSched]_vars

\* ------------------------------------------------------------------ claims
Built == buildResult = "Ok"

Parallel == Built /\ mode = "Parallel"

\* The body of system i is executing.
Running(i) == status[i] = "running"

\* The body of system i has been started in this execute call.
Started(i) == status[i] \in {"running", "returned", "done", "panicked"}

\* The body of system i has finished executing.
Finished(i) == status[i] \in {"returned", "done"}

\* The declared accesses of systems i and j conflict.
AccessConflict(i, j) ==
    Conflicts(SystemArg_access(configs[i].arg), SystemArg_access(configs[j].arg))

\* C1: under the parallel executor two systems whose declared accesses
\* conflict never execute their bodies at the same time.
C1_ConflictingSystemsDoNotOverlap ==
    Parallel =>
        \A i, j \in Systems :
            (i # j /\ AccessConflict(i, j)) => ~(Running(i) /\ Running(j))

\* C2: under the parallel executor a system is started only after every
\* system whose dependents set contains it has finished executing.
C2_StartedAfterRecordedDependencies ==
    Parallel =>
        \A j \in Systems : Started(j) =>
            \A i \in Systems : j \in executor.dependents[i] => Finished(i)

\* C2 witness: a system with two recorded dependencies is running.
C2_Witness ==
    /\ Parallel
    /\ \E j \in Systems :
          /\ Running(j)
          /\ Cardinality({i \in Systems : j \in executor.dependents[i]}) = 2

\* C3: under the parallel executor a system whose send flag is false runs
\* only on the thread that called execute.
C3_NonSendRunsOnCallerThread ==
    Parallel =>
        \A i \in Systems :
            (Started(i) /\ ~executor.systems[i].send) => thread[i] = "main"

\* C3 witness: a non-send system is running after a dependency of it was
\* completed by a worker thread.
C3_Witness ==
    /\ Parallel
    /\ \E i, d \in Systems :
          /\ ~executor.systems[i].send
          /\ Running(i)
          /\ i \in executor.dependents[d]
          /\ thread[d] = "worker"

\* C4: under the parallel executor an exclusive system never executes
\* concurrently with another system of the phase.
C4_ExclusiveRunsAlone ==
    Parallel =>
        \A i, j \in Systems :
            (i # j /\ executor.systems[i].exclusive) => ~(Running(i) /\ Running(j))

\* ParallelExecutor::execute has been called and has not returned.
Executing == mode = "Parallel" /\ mainpc \in {"recv", "run", "join"}

\* ParallelExecutor::execute has returned.
Returned == mode = "Parallel" /\ mainpc = "returned"

\* C5: ParallelExecutor::execute eventually returns; when it returns every
\* system of the phase has been executed exactly once in that call; and the
\* Done message is sent only after every system has completed.
C5_ExecuteRunsEachSystemOnceAndReturns ==
    /\ [](Executing => <>Returned)
    /\ [](Parallel => \A i \in Systems : count[i] <= 1)
    /\ [](Returned => \A i \in Systems : count[i] = 1 /\ status[i] = "done")
    /\ []((Parallel /\ \E k \in 1..Len(chan) : chan[k] = Done) =>
             \A i \in Systems : status[i] = "done")

\* C5 witness: execute has returned from a phase in which a worker thread
\* and the calling thread both ran systems.
C5_Witness ==
    /\ Returned
    /\ \E i, j \in Systems : thread[i] = "worker" /\ thread[j] = "main"

\* A system's body has panicked in this execute call.
SomePanicked == \E i \in Systems : status[i] = "panicked"

\* No thread of the execute call can take another step: no scoped thread is
\* alive, and the caller is neither running a system, nor joining, nor has a
\* message to receive.
Quiescent ==
    /\ \A i \in Systems : ~Alive(i)
    /\ mainpc \notin {"run", "join", "unwinding"}
    /\ ~(mainpc = "recv" /\ chan # <<>>)

\* C6: when the body of a system panics the run ends: once no thread can
\* take a step, execute has ended (returned, or unwound with the panic) and
\* is not left waiting, and no dispatched system is left unfinished.
C6_PanicEndsTheRun ==
    (Parallel /\ SomePanicked /\ Quiescent) =>
        /\ mainpc \in {"returned", "unwound"}
        /\ \A i \in Systems : status[i] \notin {"spawned", "running", "returned"}

\* The position of system i in the sequential run order.
OrderPos(i) == CHOOSE k \in 1..Len(executor.order) : executor.order[k] = i

DependsOn(j, i) ==
    has_dependency(into_system_node(configs[j]), into_system_node(configs[i]))

\* C8: in the built graph the dependents set of s_i contains s_j exactly
\* when i < j and s_j has a dependency on s_i, and the in-degree of s_j is
\* the number of such i.
C8_GraphRecordsDependenciesOfLaterOnEarlier ==
    Built =>
        /\ \A i, j \in Systems :
              j \in executor.dependents[i] <=> (i < j /\ DependsOn(j, i))
        /\ \A j \in Systems :
              executor.dependencies[j] =
                  Cardinality({i \in Systems : i < j /\ DependsOn(j, i)})

\* The orderings the user declared among the systems, by name: <<f, g>>
\* when a submission of f is in the dependencies of a submission of g.
DeclaredOrderings ==
    {<<configs[e[1]].name, configs[e[2]].name>> :
        e \in {x \in Systems \X Systems : x[1] \in configs[x[2]].dependencies}}

\* C9: when the declared before/after orderings among the systems of the
\* phase form a cycle, Schedule::build fails with CyclicDependency.
C9_DeclaredCycleFailsBuild ==
    (buildResult # "None" /\ Cyclic(DeclaredOrderings, ArgKinds)) =>
        buildResult = "CyclicDependency"

\* The phases whose executor Systems::run has invoked.
Executed == {execlog[k] : k \in 1..Len(execlog)}

\* The phases reachable from phase p through sub-phase edges, p included.
Subtree(p) == ReachIn(hierarchy, {p}, nphases)

\* Every invocation of the executor of sub comes after an invocation of the
\* executor of main.
InvokedBefore(main, sub) ==
    \A k \in 1..Len(execlog) :
        execlog[k] = sub => \E h \in 1..(k-1) : execlog[h] = main

SingleParent ==
    \A sub \in 0..(nphases-1) :
        Cardinality({e \in hierarchy : e[2] = sub}) <= 1

FirstInvocation(p) == CHOOSE k \in 1..Len(execlog) :
    execlog[k] = p /\ \A h \in 1..(k-1) : execlog[h] # p

\* C11: when one run(phase) call executes two phases P and Q and P was
\* declared to run before Q (an edge of the ordering DAG, from run_before
\* or run_after), the executor of P is invoked before the executor of Q.
\* Stated for P and Q of which neither is in the subtree of the other, where
\* the ordering is the only constraint between them.
C11_OrderedPhasesRunInOrder ==
    schedpc = "ran" =>
        \A e \in ordering :
            (/\ e[1] \in Executed
             /\ e[2] \in Executed
             /\ e[1] \notin Subtree(e[2])
             /\ e[2] \notin Subtree(e[1])) =>
                FirstInvocation(e[1]) < FirstInvocation(e[2])

\* ---------------------------------------------------------------- storage
\* Largest number of registered components, of entity ids handed out, the
\* largest generation of an id, and the last frame of the world.
MaxComponents == 2
MaxEntityIds == 2
MaxGeneration == 2
MaxFrame == 2

\* Frame::ZERO.
Frame_ZERO == 0

\* Frame::previous.
Frame_previous(frame) == IF frame > 0 THEN frame - 1 ELSE 0

\* Frame::is_newer, called as stamp.is_newer(current_frame, system_frame).
Frame_is_newer(stamp, current_frame, system_frame) ==
    system_frame < stamp /\ stamp <= current_frame

\* ObjectTracker::new.
ObjectTracker_new == [added |-> Frame_ZERO, modified |-> Frame_ZERO]

\* TableCell::new: the value with a new ObjectTracker.
TableCell_new(value) == [data |-> value, frame |-> ObjectTracker_new]

\* TableCell::add writes the added stamp only.
TableCell_add(cell, frame) == [cell EXCEPT !.frame.added = frame]

\* TableCell::modify writes the modified stamp only.
TableCell_modify(cell, frame) == [cell EXCEPT !.frame.modified = frame]

\* Vec::swap_remove at the 1-based position p: the last element takes the
\* place of the removed one.
Vec_swap_remove(vec, p) ==
    [k \in 1..(Len(vec) - 1) |-> IF k = p THEN vec[Len(vec)] ELSE vec[k]]

\* The 1-based position of an element of the Vec that satisfies Test, or 0.
Position(vec, Test(_)) ==
    IF \E k \in 1..Len(vec) : Test(vec[k])
    THEN CHOOSE k \in 1..Len(vec) :
             Test(vec[k]) /\ \A h \in 1..(k-1) : ~Test(vec[h])
    ELSE 0

\* Row is a SparseSet<ComponentId, TableCell>: its dense part, in order.
Row_new == <<>>

Row_position(row, id) == LET Test(e) == e.id = id IN Position(row, Test)

\* Row::contains.
Row_contains(row, id) == Row_position(row, id) # 0

\* Row::get_cell of a component the row contains.
Row_get_cell(row, id) == row[Row_position(row, id)].cell

\* Row::insert_cell (SparseSet::insert): replace in place, or push.
Row_insert_cell(row, id, cell) ==
    IF Row_contains(row, id)
    THEN [row EXCEPT ![Row_position(row, id)].cell = cell]
    ELSE Append(row, [id |-> id, cell |-> cell])

\* Row::remove (SparseSet::remove): swap_remove of the dense entry.
Row_remove(row, id) ==
    IF Row_contains(row, id)
    THEN Vec_swap_remove(row, Row_position(row, id))
    ELSE row

\* Row::ids.
Row_ids(row) == [k \in 1..Len(row) |-> row[k].id]

\* impl From<TableCell> for Column: Blob::from_cell and one stamp.
Column_from(cell) ==
    [data |-> <<cell.data>>, length |-> 1, frames |-> <<cell.frame>>]

\* Column::push_cell: Blob::push_cell and frames.push.
Column_push_cell(column, cell) ==
    [data   |-> Append(column.data, cell.data),
     length |-> column.length + 1,
     frames |-> Append(column.frames, cell.frame)]

\* Blob::swap_remove_cell_checked. The bytes of the last element are
\* drained; when length > 1 they are spliced over the element at index,
\* and Vec::splice panics when that range is beyond the drained Vec, which
\* is the case for index = length - 1. On the panic the Vec has lost the
\* last element and length has not been decremented.
Blob_swap_remove_cell_checked(data, length, index) ==
    IF index >= length
    THEN [result |-> "None", cell |-> "none", data |-> data, length |-> length]
    ELSE LET last    == data[length]
             drained == SubSeq(data, 1, length - 1)
         IN IF length > 1
            THEN IF index + 1 > Len(drained)
                 THEN [result |-> "panic", cell |-> "none",
                       data   |-> drained, length |-> length]
                 ELSE [result |-> "Some", cell |-> drained[index + 1],
                       data   |-> [drained EXCEPT ![index + 1] = last],
                       length |-> length - 1]
            ELSE [result |-> "Some", cell |-> last,
                  data   |-> drained, length |-> length - 1]

\* Column::swap_remove, given what the Blob returned: frames.swap_remove
\* unless the Blob returned None or panicked.
Column_swap_remove_of(column, index, blob) ==
    [result |-> blob.result,
     cell   |-> IF blob.result = "Some"
                THEN [data |-> blob.cell, frame |-> column.frames[index + 1]]
                ELSE "none",
     column |-> [data   |-> blob.data,
                 length |-> blob.length,
                 frames |-> IF blob.result = "Some"
                            THEN Vec_swap_remove(column.frames, index + 1)
                            ELSE column.frames]]

\* Column::swap_remove: the Blob, then the frames.
Column_swap_remove(column, index) ==
    Column_swap_remove_of(column, index,
        Blob_swap_remove_cell_checked(column.data, column.length, index))

\* Row::into_table: one column per cell, in the order of the row, and the
\* entity as the only element of the entity set.
Row_into_table(row, entity) ==
    [entities |-> <<entity>>,
     columns  |-> [k \in 1..Len(row) |->
                      [id |-> row[k].id, column |-> Column_from(row[k].cell)]]]

\* impl Iterator for Row: next() takes the first item of a new
\* SparseSet::drain, and dropping that Drain removes every other item, so
\* the iteration yields the first cell of the row and nothing else.
Row_iter(row) == IF row = <<>> THEN <<>> ELSE <<row[1]>>

\* IndexSet::get_index_of, as a 1-based position (0 is None).
Table_position(table, entity) ==
    LET Test(e) == e = entity IN Position(table.entities, Test)

\* Table::add_entity, given the first column the row has no cell for (0
\* when it has them all): the columns before it get their cell pushed.
Table_add_entity_of(table, entity, row, miss) ==
    [panic |-> miss # 0,
     table |->
       [entities |-> IF Table_position(table, entity) # 0
                     THEN table.entities
                     ELSE Append(table.entities, entity),
        columns  |-> [k \in 1..Len(table.columns) |->
             IF miss = 0 \/ k < miss
             THEN [id     |-> table.columns[k].id,
                   column |-> Column_push_cell(table.columns[k].column,
                                  Row_get_cell(row, table.columns[k].id))]
             ELSE table.columns[k]]]]

\* Table::add_entity: insert into the entity set, then push on every column
\* the cell the row holds for it; a column the row has no cell for panics.
Table_add_entity(table, entity, row) ==
    Table_add_entity_of(table, entity, row,
        LET Missing(c) == ~Row_contains(row, c.id)
        IN Position(table.columns, Missing))

\* The first column whose swap_remove panicked, 0 when none did.
FirstPanic(removed) ==
    LET Panics(r) == r.result = "panic" IN Position(removed, Panics)

\* Table::remove_entity, given what swap_remove does to each column and the
\* first column m that panics: the columns after m are untouched, and the
\* cells removed make the Row.
Table_remove_entity_of(table, p, removed, m) ==
    LET n == Len(table.columns)
        taken == SelectSeq([k \in 1..n |-> k],
                     LAMBDA k : (m = 0 \/ k < m) /\ removed[k].result = "Some")
    IN [found |-> TRUE,
        panic |-> m # 0,
        table |-> [entities |-> Vec_swap_remove(table.entities, p),
                   columns  |-> [k \in 1..n |->
                       IF m = 0 \/ k <= m
                       THEN [id     |-> table.columns[k].id,
                             column |-> removed[k].column]
                       ELSE table.columns[k]]],
        row   |-> [j \in 1..Len(taken) |->
                      [id   |-> table.columns[taken[j]].id,
                       cell |-> removed[taken[j]].cell]]]

Table_remove_entity_columns(table, p, removed) ==
    Table_remove_entity_of(table, p, removed, FirstPanic(removed))

\* Table::remove_entity of the entity at the 1-based position p (0: the
\* entity is not in the table).
Table_remove_entity_at(table, p) ==
    IF p = 0
    THEN [found |-> FALSE, panic |-> FALSE, table |-> table, row |-> Row_new]
    ELSE Table_remove_entity_columns(table, p,
             [k \in 1..Len(table.columns) |->
                 Column_swap_remove(table.columns[k].column, p - 1)])

\* Table::remove_entity: swap_remove of the entity, then of its index in
\* every column, in column order.
Table_remove_entity(table, entity) ==
    Table_remove_entity_at(table, Table_position(table, entity))

\* Entities::spawn: a freed id with its generation incremented, else the
\* next id with generation 1.
Entities_spawn(entities) ==
    IF entities.free # <<>>
    THEN LET id == entities.free[Len(entities.free)]
             generation == (IF id \in DOMAIN entities.generations
                            THEN entities.generations[id] ELSE 0) + 1
         IN [entity   |-> [id |-> id, generation |-> generation],
             entities |-> [entities EXCEPT
                 !.free = SubSeq(entities.free, 1, Len(entities.free) - 1),
                 !.generations = (id :> generation) @@ entities.generations]]
    ELSE [entity   |-> [id |-> entities.current, generation |-> 1],
          entities |-> [entities EXCEPT
              !.current = entities.current + 1,
              !.generations = (entities.current :> 1) @@ entities.generations]]

\* Entities::despawn pushes the id on the free list.
Entities_despawn(entities, entity) ==
    [entities EXCEPT !.free = Append(entities.free, entity.id)]

\* HashMap::insert and HashMap::remove.
HashMap_insert(map, key, value) == (key :> value) @@ map

HashMap_remove(map, key) == [k \in (DOMAIN map) \ {key} |-> map[k]]

\* The elements of a Vec.
Elements(vec) == {vec[k] : k \in 1..Len(vec)}

\* ids.sort() on a Vec of distinct ComponentIds.
sort(ids) ==
    [k \in 1..Len(ids) |->
        CHOOSE x \in Elements(ids) :
            Cardinality({y \in Elements(ids) : y < x}) = k - 1]

\* FixedBitSet::grow and FixedBitSet::set(bit, true).
FixedBitSet_grow(bitset, len) ==
    [bitset EXCEPT !.len = IF len > bitset.len THEN len ELSE bitset.len]

FixedBitSet_set(bitset, bit) == [bitset EXCEPT !.bits = @ \cup {bit}]

\* FixedBitSet::is_superset and FixedBitSet::is_disjoint.
FixedBitSet_is_superset(bitset, other) == other.bits \subseteq bitset.bits

FixedBitSet_is_disjoint(bitset, other) == bitset.bits \cap other.bits = {}

\* Archetypes::register of a component type that is not registered yet:
\* the next ComponentId, and the bit set grows to hold it.
Archetypes_register(w) ==
    [w EXCEPT !.components = w.components + 1,
              !.bitset = FixedBitSet_grow(w.bitset, w.components + 1)]

\* Archetypes::add_entity: an entity the map does not know goes to the
\* empty archetype.
Archetypes_add_entity(w, entity) ==
    IF entity \in DOMAIN w.entity_map
    THEN w
    ELSE [w EXCEPT
            !.entity_map = HashMap_insert(w.entity_map, entity, 0),
            !.archetypes[1].table =
                Table_add_entity(w.archetypes[1].table, entity, Row_new).table]

\* Archetypes::remove_entity, given the archetype id of the entity and
\* what Table::remove_entity returned.
Archetypes_remove_entity_of(w, entity, id, r) ==
    [found |-> r.found,
     panic |-> r.panic,
     w     |-> [w EXCEPT
                  !.entity_map = HashMap_remove(w.entity_map, entity),
                  !.archetypes[id + 1].table = r.table],
     row   |-> r.row]

\* Archetypes::remove_entity: the entity leaves the map, then the table of
\* its archetype.
Archetypes_remove_entity(w, entity) ==
    IF entity \notin DOMAIN w.entity_map
    THEN [found |-> FALSE, panic |-> FALSE, w |-> w, row |-> Row_new]
    ELSE Archetypes_remove_entity_of(w, entity, w.entity_map[entity],
             Table_remove_entity(
                 w.archetypes[w.entity_map[entity] + 1].table, entity))

\* Archetypes::add_entity_inner, Some arm: the entity joins the table of
\* the archetype a, then the map.
Archetypes_add_entity_existing(w, entity, a, r) ==
    [panic |-> r.panic,
     w     |-> IF r.panic
               THEN [w EXCEPT !.archetypes[a + 1].table = r.table]
               ELSE [w EXCEPT
                       !.archetypes[a + 1].table = r.table,
                       !.entity_map = HashMap_insert(w.entity_map, entity, a)]]

\* Archetypes::add_entity_inner from the lookup of the key id on: the
\* archetype the map holds for it, or else a new archetype pushed on the
\* Vec with the bits of the ids set.
Archetypes_add_entity_under(w, entity, components, id) ==
    IF id \in DOMAIN w.archetype_map
    THEN Archetypes_add_entity_existing(w, entity, w.archetype_map[id],
             Table_add_entity(w.archetypes[w.archetype_map[id] + 1].table,
                              entity, components))
    ELSE [panic |-> FALSE,
          w     |-> [w EXCEPT
              !.archetypes = Append(w.archetypes,
                  [id     |-> Len(w.archetypes),
                   table  |-> Row_into_table(components, entity),
                   bitset |-> [len  |-> w.bitset.len,
                               bits |-> w.bitset.bits \cup Elements(id)]]),
              !.entity_map =
                  HashMap_insert(w.entity_map, entity, Len(w.archetypes)),
              !.archetype_map =
                  HashMap_insert(w.archetype_map, id, Len(w.archetypes))]]

\* Archetypes::add_entity_inner looking the archetype up under the ids in
\* the order of the row.
Archetypes_add_entity_inner_unsorted(w, entity, components) ==
    Archetypes_add_entity_under(w, entity, components, Row_ids(components))

\* Archetypes::add_entity_inner: the key is the sorted ids of the row.
Archetypes_add_entity_inner(w, entity, components) ==
    Archetypes_add_entity_under(w, entity, components,
                                sort(Row_ids(components)))

\* The stamping of add_component / add_components: the cell of a component
\* the row already holds is marked modified, that of a new one added, and
\* it replaces whatever the row held.
Row_stamp_and_insert(row, id, cell, frame) ==
    Row_insert_cell(row, id,
        IF Row_contains(row, id)
        THEN TableCell_modify(cell, frame)
        ELSE TableCell_add(cell, frame))

RECURSIVE Row_stamp_and_insert_all(_, _, _)
Row_stamp_and_insert_all(row, items, frame) ==
    IF items = <<>>
    THEN row
    ELSE Row_stamp_and_insert_all(
             Row_stamp_and_insert(row, items[1].id, items[1].cell, frame),
             Tail(items), frame)

RECURSIVE Row_remove_all(_, _)
Row_remove_all(row, ids) ==
    IF ids = <<>> THEN row
    ELSE Row_remove_all(Row_remove(row, ids[1]), Tail(ids))

\* Archetypes::add_component after remove_entity.
Archetypes_add_component_of(removed, frame, entity, id, component) ==
    IF removed.panic
    THEN [panic |-> TRUE, w |-> removed.w]
    ELSE Archetypes_add_entity_inner(removed.w, entity,
             Row_stamp_and_insert(
                 IF removed.found THEN removed.row ELSE Row_new,
                 id, TableCell_new(component), frame))

\* Archetypes::add_component.
Archetypes_add_component(w, frame, entity, id, component) ==
    Archetypes_add_component_of(Archetypes_remove_entity(w, entity),
                                frame, entity, id, component)

\* Archetypes::add_components after remove_entity.
Archetypes_add_components_of(removed, frame, entity, components) ==
    IF removed.panic
    THEN [panic |-> TRUE, w |-> removed.w]
    ELSE Archetypes_add_entity_inner(removed.w, entity,
             Row_stamp_and_insert_all(
                 IF removed.found THEN removed.row ELSE Row_new,
                 Row_iter(components), frame))

\* Archetypes::add_components: `for (id, component) in components`.
Archetypes_add_components(w, frame, entity, components) ==
    Archetypes_add_components_of(Archetypes_remove_entity(w, entity),
                                 frame, entity, components)

\* Archetypes::remove_component after remove_entity.
Archetypes_remove_component_of(removed, entity, id) ==
    IF removed.panic
    THEN [panic |-> TRUE, w |-> removed.w]
    ELSE IF ~removed.found
    THEN [panic |-> FALSE, w |-> removed.w]
    ELSE Archetypes_add_entity_inner(removed.w, entity,
             Row_remove(removed.row, id))

\* Archetypes::remove_component.
Archetypes_remove_component(w, entity, id) ==
    Archetypes_remove_component_of(Archetypes_remove_entity(w, entity),
                                   entity, id)

\* Archetypes::remove_components after remove_entity.
Archetypes_remove_components_of(removed, entity, components) ==
    IF removed.panic
    THEN [panic |-> TRUE, w |-> removed.w]
    ELSE IF ~removed.found
    THEN [panic |-> FALSE, w |-> removed.w]
    ELSE Archetypes_add_entity_inner(removed.w, entity,
             Row_remove_all(removed.row, components))

\* Archetypes::remove_components.
Archetypes_remove_components(w, entity, components) ==
    Archetypes_remove_components_of(Archetypes_remove_entity(w, entity),
                                    entity, components)

\* World::spawn after Entities::spawn.
World_spawn_of(w, spawned) ==
    [entity |-> spawned.entity,
     w      |-> Archetypes_add_entity([w EXCEPT !.entities = spawned.entities],
                                      spawned.entity)]

\* World::spawn.
World_spawn(w) == World_spawn_of(w, Entities_spawn(w.entities))

\* World::despawn after Archetypes::remove_entity.
World_despawn_of(removed) == [panic |-> removed.panic, w |-> removed.w]

\* World::despawn.
World_despawn(w, entity) ==
    World_despawn_of(Archetypes_remove_entity(
        [w EXCEPT !.entities = Entities_despawn(w.entities, entity)], entity))

\* The world's update: the frame advances by one.
World_update(w) == [w EXCEPT !.frame = w.frame + 1]

\* ---------------------------------------------------------------- queries
\* The filters of a query: (), With<C>, Not<C>, Added<C>, Modified<C>.
FilterKinds == {"()", "With", "Not", "Added", "Modified"}

\* QueryState::new: Q::init pushes the components the query reads, then
\* F::init pushes the component of With on components and that of Not on
\* exclude; Added and Modified push nothing.
QueryState_new(reads, filter) ==
    [components |-> IF filter.kind = "With"
                    THEN Append(reads, filter.id) ELSE reads,
     exclude    |-> IF filter.kind = "Not" THEN <<filter.id>> ELSE <<>>]

\* The ids of the archetypes selected.
Archetype_ids(selected) == [k \in 1..Len(selected) |-> selected[k].id]

\* Archetypes::query that never excludes.
Archetypes_query_include_only(w, query) ==
    LET include == [len  |-> w.bitset.len,
                    bits |-> w.bitset.bits \cup Elements(query.components)]
        Selected(archetype) ==
            FixedBitSet_is_superset(archetype.bitset, include)
    IN Archetype_ids(SelectSeq(w.archetypes, Selected))

\* Archetypes::query: the archetypes, in the order of the Vec, whose bit set
\* is a superset of include and disjoint from exclude.
Archetypes_query(w, query) ==
    LET include == [len  |-> w.bitset.len,
                    bits |-> w.bitset.bits \cup Elements(query.components)]
        exclude == [len  |-> w.bitset.len,
                    bits |-> w.bitset.bits \cup Elements(query.exclude)]
        Selected(archetype) ==
            /\ FixedBitSet_is_superset(archetype.bitset, include)
            /\ FixedBitSet_is_disjoint(exclude, archetype.bitset)
    IN Archetype_ids(SelectSeq(w.archetypes, Selected))

\* Table::get_column as the 1-based position of the column (0 is None).
Table_get_column(table, id) ==
    LET Test(c) == c.id = id IN Position(table.columns, Test)

\* Added::get on the column at position c (0: the archetype has none).
Added_get_of(table, c, row, current_frame, system_frame) ==
    IF c = 0
    THEN FALSE
    ELSE Frame_is_newer(table.columns[c].column.frames[row + 1].added,
                        current_frame, system_frame)

\* Modified::get on the column at position c.
Modified_get_of(table, c, row, current_frame, system_frame) ==
    IF c = 0
    THEN FALSE
    ELSE Frame_is_newer(table.columns[c].column.frames[row + 1].modified,
                        current_frame, system_frame)

\* Added::get reading the modified stamp.
Added_get_modified(table, id, row, current_frame, system_frame) ==
    Modified_get_of(table, Table_get_column(table, id), row,
                    current_frame, system_frame)

\* Added::state and Added::get: false without a column, else is_newer of
\* the added stamp of the row.
Added_get(table, id, row, current_frame, system_frame) ==
    Added_get_of(table, Table_get_column(table, id), row,
                 current_frame, system_frame)

\* Modified::state and Modified::get.
Modified_get(table, id, row, current_frame, system_frame) ==
    Modified_get_of(table, Table_get_column(table, id), row,
                    current_frame, system_frame)

\* F::get: "true", "false", or "panic" for With, whose get is todo!().
Filter_get(filter, table, row, current_frame, system_frame) ==
    CASE filter.kind = "()"   -> "true"
      [] filter.kind = "Not"  -> "true"
      [] filter.kind = "With" -> "panic"
      [] filter.kind = "Added" ->
            IF Added_get(table, filter.id, row, current_frame, system_frame)
            THEN "true" ELSE "false"
      [] filter.kind = "Modified" ->
            IF Modified_get(table, filter.id, row, current_frame, system_frame)
            THEN "true" ELSE "false"

\* `for item in query.iter()`: QueryIter::next is called until it returns
\* None. next() takes the next entity of the current archetype, evaluates
\* the filter on its row and returns filter.then_some(item): None when the
\* filter is false. With no entity left it moves to the next archetype.
\* The items are the entities of the rows yielded.
RECURSIVE QueryIter_collect(_, _, _, _, _, _, _, _)
\* next() once the filter has been evaluated on the row of the entity.
QueryIter_filtered(w, archetypes, filter, current_frame, system_frame, archetype, position, items, entity, f) ==
    IF f = "panic"
    THEN [items |-> items, panic |-> TRUE]
    ELSE IF f = "false"
    THEN [items |-> items, panic |-> FALSE]
    ELSE QueryIter_collect(w, archetypes, filter, current_frame,
             system_frame, archetype, position + 1, Append(items, entity))

\* next() in the table of the current archetype.
QueryIter_row(w, archetypes, filter, current_frame, system_frame, archetype, position, items, table) ==
    IF position <= Len(table.entities)
    THEN QueryIter_filtered(w, archetypes, filter, current_frame,
             system_frame, archetype, position, items,
             table.entities[position],
             Filter_get(filter, table, position - 1, current_frame,
                        system_frame))
    ELSE QueryIter_collect(w, archetypes, filter, current_frame,
             system_frame, archetype + 1, 1, items)

QueryIter_collect(w, archetypes, filter, current_frame, system_frame, archetype, position, items) ==
    IF archetype >= Len(archetypes)
    THEN [items |-> items, panic |-> FALSE]
    ELSE QueryIter_row(w, archetypes, filter, current_frame, system_frame,
             archetype, position, items,
             w.archetypes[archetypes[archetype + 1] + 1].table)

\* SystemConfig::into_system_node: meta.frame is the frame before the
\* world's frame at build.
SystemMeta_new(w) ==
    [built |-> TRUE, frame |-> Frame_previous(w.frame)]

\* What the run of the system leaves to observe: the query, the archetypes
\* it selected, the items its iteration yielded and the frames it used.
Query_result(w, sys, reads, filter, archetypes, collected) ==
    [kind          |-> "query",
     reads         |-> reads,
     filter        |-> filter,
     archetypes    |-> archetypes,
     items         |-> collected.items,
     panic         |-> collected.panic,
     current_frame |-> w.frame,
     system_frame  |-> sys.frame]

\* The body of the system: the iteration of the query over the archetypes.
Query_iter(w, sys, reads, filter, archetypes) ==
    Query_result(w, sys, reads, filter, archetypes,
        QueryIter_collect(w, archetypes, filter, w.frame, sys.frame,
                          0, 1, <<>>))

\* System::execute with the one argument Query<Q, F>, Q reading `reads` and
\* F the filter: SystemArg::get makes Query::with_frame(world, state,
\* system.frame) from the QueryState of the query, and the body iterates it.
System_execute(w, sys, reads, filter) ==
    Query_iter(w, sys, reads, filter,
               Archetypes_query(w, QueryState_new(reads, filter)))

\* ------------------------------------------------- the world's operations
\* The registered ComponentIds.
ComponentIds == 0..(world.components - 1)

\* The Vecs of distinct registered ComponentIds, of length 1 or 2.
ComponentLists ==
    {<<a>> : a \in ComponentIds} \cup
    {<<p[1], p[2]>> : p \in {q \in ComponentIds \X ComponentIds : q[1] # q[2]}}

\* The Row that Spawned::with builds: Row::insert of a new TableCell for
\* every component, owned by the entity.
Row_of(ids, entity) ==
    [k \in 1..Len(ids) |-> [id |-> ids[k], cell |-> TableCell_new(entity)]]

otherVars == <<execVars, buildResult, schedVars, storeVars>>

\* The main thread holds the world: no system is executing and no
\* operation has panicked.
WorldHeld == ~panicked /\ qres = NoQuery

\* World::register of a component type not registered yet.
Register ==
    /\ WorldHeld
    /\ world.components < MaxComponents
    /\ world' = Archetypes_register(world)
    /\ UNCHANGED <<otherVars, panicked, live, system, qres>>

\* The world and the live entities after World::spawn returned.
Spawned(spawned) ==
    /\ spawned.entity.id < MaxEntityIds
    /\ spawned.entity.generation <= MaxGeneration
    /\ world' = spawned.w
    /\ live' = live \cup {spawned.entity}

\* World::spawn.
Spawn ==
    /\ WorldHeld
    /\ Spawned(World_spawn(world))
    /\ UNCHANGED <<otherVars, panicked, system, qres>>

\* The world after an operation returned or panicked.
Applied(r) ==
    /\ world' = r.w
    /\ panicked' = r.panic

\* World::despawn of a live entity.
Despawn(entity) ==
    /\ WorldHeld
    /\ Applied(World_despawn(world, entity))
    /\ live' = live \ {entity}
    /\ UNCHANGED <<otherVars, system, qres>>

\* World::add_component(entity, component) for a registered component; the
\* value stored names the entity it was added to.
AddComponent(entity, id) ==
    /\ WorldHeld
    /\ Applied(Archetypes_add_component(world, world.frame, entity, id, entity))
    /\ UNCHANGED <<otherVars, live, system, qres>>

\* World::add_components(entity, components).
AddComponents(entity, ids) ==
    /\ WorldHeld
    /\ Applied(Archetypes_add_components(world, world.frame, entity,
                                         Row_of(ids, entity)))
    /\ UNCHANGED <<otherVars, live, system, qres>>

\* World::remove_component(entity).
RemoveComponent(entity, id) ==
    /\ WorldHeld
    /\ Applied(Archetypes_remove_component(world, entity, id))
    /\ UNCHANGED <<otherVars, live, system, qres>>

\* World::remove_components(entity, components).
RemoveComponents(entity, ids) ==
    /\ WorldHeld
    /\ Applied(Archetypes_remove_components(world, entity, ids))
    /\ UNCHANGED <<otherVars, live, system, qres>>

\* The end of an update: the world's frame advances.
Update ==
    /\ WorldHeld
    /\ world.frame < MaxFrame
    /\ world' = World_update(world)
    /\ UNCHANGED <<otherVars, panicked, live, system, qres>>

\* The operations of the world, each on a live entity.
NextWorld ==
    \/ Register
    \/ Spawn
    \/ \E entity \in live : Despawn(entity)
    \/ \E entity \in live, id \in ComponentIds : AddComponent(entity, id)
    \/ \E entity \in live, ids \in ComponentLists : AddComponents(entity, ids)
    \/ \E entity \in live, id \in ComponentIds : RemoveComponent(entity, id)
    \/ \E entity \in live, ids \in ComponentLists :
          RemoveComponents(entity, ids)
    \/ Update

\* The world from World::new under its operations.
SpecWorld == InitSched /\ [][NextWorld]_vars

\* ------------------------------------------------------ systems and queries
\* The queries of the systems of the schedule: Query<Q, F> with Q reading
\* nothing or the first component, and F any filter on a registered
\* component.
QueryReads == {<<>>} \cup {<<id>> : id \in ComponentIds \cap {0}}

QueryFilters ==
    {[kind |-> "()", id |-> 0]} \cup
    {[kind |-> kind, id |-> id] :
        kind \in FilterKinds \ {"()"}, id \in ComponentIds}

\* The schedule is built: every system becomes a SystemNode, all with the
\* same meta.frame.
BuildSystem ==
    /\ WorldHeld
    /\ ~system.built
    /\ system' = SystemMeta_new(world)
    /\ UNCHANGED <<otherVars, world, panicked, live, qres>>

\* The executor runs the system of the query (reads, filter):
\* System::execute. A panic of the body is a panic of the run.
ExecuteSystem(reads, filter) ==
    /\ WorldHeld
    /\ system.built
    /\ qres' = System_execute(world, system, reads, filter)
    /\ panicked' = qres'.panic
    /\ UNCHANGED <<otherVars, world, live, system>>

\* The body of the system returns and the main thread holds the world again.
SystemReturn ==
    /\ ~panicked
    /\ qres # NoQuery
    /\ qres' = NoQuery
    /\ UNCHANGED <<otherVars, world, panicked, live, system>>

NextQuery ==
    \/ Register
    \/ Spawn
    \/ \E entity \in live, id \in ComponentIds : AddComponent(entity, id)
    \/ \E entity \in live, id \in ComponentIds : RemoveComponent(entity, id)
    \/ Update
    \/ BuildSystem
    \/ \E reads \in QueryReads, filter \in QueryFilters :
          ExecuteSystem(reads, filter)
    \/ SystemReturn

\* The systems of a schedule querying the world between its operations.
SpecQuery == InitSched /\ [][NextQuery]_vars

\* ---------------------------------------------------- C12: archetype identity
\* The component-id set of the archetype at position k of the Vec.
ArchetypeIdSet(w, k) ==
    {w.archetypes[k].table.columns[c].id :
        c \in 1..Len(w.archetypes[k].table.columns)}

\* The archetypes of the world, by position.
ArchetypeIndexes == 1..Len(world.archetypes)

\* C12: in every reachable world state two distinct archetypes have distinct
\* component-id sets: no id set is given a second archetype.
C12_ArchetypeIdentity ==
    \A a \in ArchetypeIndexes, b \in ArchetypeIndexes :
        a # b => ArchetypeIdSet(world, a) # ArchetypeIdSet(world, b)

\* Two entities that got the same two components in opposite orders share
\* the one archetype of that id set.
C12_Witness ==
    /\ ~panicked
    /\ \E k \in ArchetypeIndexes :
          LET table == world.archetypes[k].table
          IN /\ Len(table.entities) = 2
             /\ Len(table.columns) = 2
             /\ \E j \in ArchetypeIndexes :
                   /\ Len(world.archetypes[j].table.columns) = 1
                   /\ world.archetypes[j].table.columns[1].id = 1
             /\ \E j \in ArchetypeIndexes :
                   /\ Len(world.archetypes[j].table.columns) = 1
                   /\ world.archetypes[j].table.columns[1].id = 0

\* ---------------------------------------------------- C13: table alignment
\* Every column of the table has one row per entity of the entity list, and
\* row i holds the component of the entity at position i.
TableAligned(table) ==
    \A c \in 1..Len(table.columns) :
        LET column == table.columns[c].column
        IN /\ column.length = Len(table.entities)
           /\ Len(column.data) = Len(table.entities)
           /\ Len(column.frames) = Len(table.entities)
           /\ \A i \in 1..Len(table.entities) :
                 column.data[i] = table.entities[i]

\* C13: in every reachable world state every column of every archetype has
\* exactly as many rows as the entity list of the archetype, and row i of
\* each column holds the component of the entity at position i.
C13_TableAlignment ==
    \A k \in ArchetypeIndexes : TableAligned(world.archetypes[k].table)

\* ---------------------------------------------------- C14: entity location
\* The archetypes, by position, whose entity set contains the entity.
ArchetypesOf(w, entity) ==
    {k \in 1..Len(w.archetypes) :
        Table_position(w.archetypes[k].table, entity) # 0}

\* C14: in every reachable world state each live entity is in the entity
\* set of exactly one archetype, and the entity-to-archetype map records
\* that archetype for it.
C14_EntityLocation ==
    \A entity \in live :
        /\ Cardinality(ArchetypesOf(world, entity)) = 1
        /\ entity \in DOMAIN world.entity_map
        /\ ArchetypesOf(world, entity) = {world.entity_map[entity] + 1}

\* ------------------------------------------------- C15: change monotonicity
\* C15: in every reachable world state every stored component cell has
\* stamp.modified >= stamp.added.
C15_ModifiedNotBeforeAdded ==
    \A k \in ArchetypeIndexes :
        \A c \in 1..Len(world.archetypes[k].table.columns) :
            LET frames == world.archetypes[k].table.columns[c].column.frames
            IN \A i \in 1..Len(frames) : frames[i].modified >= frames[i].added

\* --------------------------------------- C16: stamping rule of add_component
\* The stamp an entity has no cell for.
NoStamp == [added |-> -1, modified |-> -1]

\* The change stamp of the cell the entity has for the component, NoStamp
\* when it has none.
StampOf(w, entity, id) ==
    IF entity \notin DOMAIN w.entity_map
    THEN NoStamp
    ELSE LET table == w.archetypes[w.entity_map[entity] + 1].table
             c == Table_get_column(table, id)
             p == Table_position(table, entity)
         IN IF c = 0 \/ p = 0
            THEN NoStamp
            ELSE table.columns[c].column.frames[p]

\* The stamp the rule gives the cell after add_component at frame F.
StampedByRule(old, F) ==
    IF old = NoStamp
    THEN [added |-> F, modified |-> F]
    ELSE [added |-> old.added, modified |-> F]

\* C16: add_component(e, C) at current frame F, when it returns, leaves the
\* cell with added = modified = F if e did not have C, and with
\* modified = F and the added stamp it had before if e already had C.
C16_AddComponentStamps ==
    [][\A entity \in live, id \in ComponentIds :
          (AddComponent(entity, id) /\ ~panicked') =>
              StampOf(world', entity, id) =
                  StampedByRule(StampOf(world, entity, id), world.frame)]_vars

\* ------------------------------------------- C17: Added and Modified filters
\* The rule: a stamp is accepted iff it is after the last-run frame f of the
\* system and not after the current frame F.
Fresh(stamp, f, F) == f < stamp /\ stamp <= F

\* The stamp the filter looks at in a tracker.
FilterStamp(filter, tracker) ==
    IF filter.kind = "Added" THEN tracker.added ELSE tracker.modified

\* The tables of the world with their rows, as <<archetype, row>> pairs,
\* rows counted from 0.
TableRows ==
    {kr \in ArchetypeIndexes \X (0..(MaxEntityIds - 1)) :
        kr[2] < Len(world.archetypes[kr[1]].table.entities)}

\* C17: for the system that has run with last-run frame f at current frame
\* F, the Added<C> (Modified<C>) filter accepts a row iff the archetype has
\* a column for C and f < stamp.added (stamp.modified) <= F, so a stamp of
\* Frame::ZERO and a row without a column are never accepted; and every
\* item the query yielded is a row the rule accepts.
C17_AddedModifiedFreshness ==
    (qres.kind = "query" /\ qres.filter.kind \in {"Added", "Modified"}) =>
        /\ \A kr \in TableRows :
              LET table == world.archetypes[kr[1]].table
                  c     == Table_get_column(table, qres.filter.id)
              IN (Filter_get(qres.filter, table, kr[2], qres.current_frame,
                             qres.system_frame) = "true")
                 <=> (/\ c # 0
                      /\ Fresh(FilterStamp(qres.filter,
                                   table.columns[c].column.frames[kr[2] + 1]),
                               qres.system_frame, qres.current_frame))
        /\ \A i \in 1..Len(qres.items) :
              LET tracker == StampOf(world, qres.items[i], qres.filter.id)
              IN /\ tracker # NoStamp
                 /\ FilterStamp(qres.filter, tracker) # Frame_ZERO
                 /\ Fresh(FilterStamp(qres.filter, tracker),
                          qres.system_frame, qres.current_frame)

\* An Added<C> query of a system last run at frame 1 yields a row added at
\* frame 2 while another entity holds a C added at frame 1, one holds a C
\* whose added stamp is Frame::ZERO or an archetype has no column for C.
C17_Witness ==
    /\ qres.kind = "query"
    /\ qres.filter.kind = "Added"
    /\ qres.system_frame = 1
    /\ qres.current_frame = 2
    /\ Len(qres.items) > 0
    /\ \E entity \in live :
          StampOf(world, entity, qres.filter.id).added = 1

\* ------------------------------------------------ C18: the last-run frame
\* C18: when a system is executed its meta.frame has been written to the
\* current frame of the world before the body is called, so the frame its
\* query is bound to is not the one fixed at schedule build.
C18_MetaFrameWrittenEachRun ==
    qres.kind = "query" =>
        /\ system.frame = qres.current_frame
        /\ qres.system_frame = system.frame

\* ---------------------------------------------------- C19: archetype selection
\* The include and exclude sets of the query that ran.
IncludeSet == Elements(QueryState_new(qres.reads, qres.filter).components)

ExcludeSet == Elements(QueryState_new(qres.reads, qres.filter).exclude)

\* The ids of the archetypes whose component set is a superset of the
\* include set and disjoint from the exclude set.
Matching ==
    {k - 1 : k \in {j \in ArchetypeIndexes :
                      /\ IncludeSet \subseteq ArchetypeIdSet(world, j)
                      /\ ExcludeSet \cap ArchetypeIdSet(world, j) = {}}}

\* C19: the archetype selection of a query returns exactly the archetypes
\* whose component set is a superset of the include set and disjoint from
\* the exclude set, in archetype-creation order.
C19_ArchetypeSelection ==
    qres.kind = "query" =>
        /\ Elements(qres.archetypes) = Matching
        /\ \A i \in 1..Len(qres.archetypes), j \in 1..Len(qres.archetypes) :
              i < j => qres.archetypes[i] < qres.archetypes[j]

\* A query reading component 0 with the filter Not<1> selects the
\* archetype {0}, created before component 1 was registered, and neither
\* the archetype {0, 1} nor the archetype {1}.
C19_Witness ==
    /\ qres.kind = "query"
    /\ qres.reads = <<0>>
    /\ qres.filter = [kind |-> "Not", id |-> 1]
    /\ Len(qres.archetypes) = 1
    /\ world.archetypes[qres.archetypes[1] + 1].bitset.len = 1
    /\ world.bitset.len = 2
    /\ \E k \in ArchetypeIndexes : ArchetypeIdSet(world, k) = {0, 1}
    /\ \E k \in ArchetypeIndexes : ArchetypeIdSet(world, k) = {1}

\* ---------------------------------------------------- C20: query iteration
\* Whether the filter is true on the row: Added and Modified by the
\* freshness rule, With, Not and () on every row.
AcceptedBy(filter, table, row) ==
    IF filter.kind \in {"Added", "Modified"}
    THEN LET c == Table_get_column(table, filter.id)
         IN /\ c # 0
            /\ Fresh(FilterStamp(filter, table.columns[c].column.frames[row + 1]),
                     qres.system_frame, qres.current_frame)
    ELSE TRUE

\* The entities of the table, in table order, on whose row the filter of
\* the query is true.
AcceptedRows(table) ==
    SelectSeq(table.entities,
              LAMBDA e : AcceptedBy(qres.filter, table,
                                    Table_position(table, e) - 1))

\* The accepted rows of the selected archetypes from the k-th on.
RECURSIVE ExpectedItems(_)
ExpectedItems(k) ==
    IF k > Len(qres.archetypes)
    THEN <<>>
    ELSE AcceptedRows(world.archetypes[qres.archetypes[k] + 1].table)
             \o ExpectedItems(k + 1)

\* C20: iterating a query yields, over the matching archetypes in creation
\* order and their entities in table order, exactly one item for each row
\* the filter is true on: rows the filter is false on are skipped and the
\* iteration goes on, and With, Not and () accept every row.
C20_IterationYieldsAcceptedRows ==
    qres.kind = "query" =>
        /\ ~qres.panic
        /\ qres.items = ExpectedItems(1)

\* ------------------------------------------------------- entity handles
\* Every Entity value a caller can hold within the bounds: handles that
\* were issued, stale ones and ones that were never issued.
AllHandles == [id : 0..(MaxEntityIds - 1), generation : 1..MaxGeneration]

\* The handles Entities has issued: for each id, the generations up to the
\* one recorded for it.
Issued(entities) ==
    {h \in AllHandles :
        /\ h.id \in DOMAIN entities.generations
        /\ h.generation <= entities.generations[h.id]}

\* The handles that were issued and are live no longer.
Despawned == Issued(world.entities) \ live

\* Table::get_component: None unless the entity is in the table, the table
\* has the column and the column has the row.
Table_get_component(table, p, c) ==
    IF p = 0 \/ c = 0
    THEN "None"
    ELSE IF p - 1 < table.columns[c].column.length
    THEN "Some"
    ELSE "None"

\* Archetypes::get_component (World::get_component): None for an entity
\* the entity map does not hold.
World_get_component(w, entity, id) ==
    IF entity \notin DOMAIN w.entity_map
    THEN "None"
    ELSE Table_get_component(
             w.archetypes[w.entity_map[entity] + 1].table,
             Table_position(w.archetypes[w.entity_map[entity] + 1].table,
                            entity),
             Table_get_column(w.archetypes[w.entity_map[entity] + 1].table,
                              id))

\* World::despawn through any handle a caller can hold, while the free
\* list is empty.
DespawnHandle(entity) ==
    /\ world.entities.free = <<>>
    /\ Despawn(entity)

\* World::register of the first component type.
RegisterFirst ==
    /\ world.components = 0
    /\ Register

\* World::add_component of the first component type to a live entity that
\* does not have it.
AddFirst(entity) ==
    /\ world.components > 0
    /\ World_get_component(world, entity, 0) = "None"
    /\ AddComponent(entity, 0)

\* Spawns, despawns through any handle, and one component on the live
\* entities.
NextHandles ==
    \/ RegisterFirst
    \/ Spawn
    \/ \E entity \in AllHandles : DespawnHandle(entity)
    \/ \E entity \in live : AddFirst(entity)

SpecHandles == InitSched /\ [][NextHandles]_vars

\* C21: once an entity is despawned, no later spawn returns its handle
\* again, whatever slot it reuses, and a component looked up through the
\* old handle is absent.
C21_DespawnedHandleMatchesNoLiveEntity ==
    [][/\ Spawn => World_spawn(world).entity \notin Despawned
       /\ \A h \in Despawned', id \in 0..(MaxComponents - 1) :
             World_get_component(world', h, id) = "None"]_vars

\* C22: despawn of an entity that is not live leaves the world as it was,
\* the free list of the id allocator included.
C22_DespawnOfUnknownEntityChangesNothing ==
    [][\A h \in AllHandles \ live : DespawnHandle(h) => world' = world]_vars


\* ------------------------------------ C23: add_component, remove_component
\* The archetype the entity-to-archetype map records for the entity, -1
\* when it records none.
ArchetypeOf(w, entity) ==
    IF entity \in DOMAIN w.entity_map THEN w.entity_map[entity] ELSE -1

\* remove_component::<C>(entity) on the world add_component left.
AddThenRemove_of(added, entity, id) ==
    IF added.panic THEN added ELSE Archetypes_remove_component(added.w, entity, id)

\* add_component(entity, c) followed by remove_component::<C>(entity).
AddThenRemove(w, entity, id) ==
    AddThenRemove_of(Archetypes_add_component(w, w.frame, entity, id, entity), entity, id)

\* The two calls complete and the entity is in the archetype it was in.
RestoresArchetype(w, entity, r) ==
    /\ ~r.panic
    /\ ArchetypeOf(r.w, entity) = ArchetypeOf(w, entity)

\* C23: in every reachable world state, for every live entity e and every
\* registered component C, add_component(e, c) followed by
\* remove_component::<C>(e) completes and leaves e in the archetype it
\* occupied before the add.
C23_AddThenRemoveRestoresArchetype ==
    ~panicked =>
        \A entity \in live, id \in 0..(world.components - 1) :
            RestoresArchetype(world, entity, AddThenRemove(world, entity, id))


\* -------------------------------------------------------- C24: add_components
\* The component ids of the archetype the entity is in.
ComponentsOf(w, entity) ==
    IF entity \in DOMAIN w.entity_map THEN ArchetypeIdSet(w, w.entity_map[entity] + 1) ELSE {}

\* add_components completed, the entity is in the archetype of its previous
\* ids united with the ids of the row, and every id of the row is readable.
AddedAll(w, entity, ids, r) ==
    /\ ~r.panic
    /\ ComponentsOf(r.w, entity) = ComponentsOf(w, entity) \cup Elements(ids)
    /\ \A id \in Elements(ids) : World_get_component(r.w, entity, id) = "Some"

\* C24: in every reachable world state, for every live entity e and every
\* row of k >= 1 registered components, add_components(e, row) moves e to
\* the archetype whose id set is e's previous id set united with the ids of
\* the row, and afterwards every component of the row is readable on e.
C24_AddComponentsAddsEveryComponent ==
    ~panicked =>
        \A entity \in live, ids \in ComponentLists :
            Len(ids) >= 1 =>
                AddedAll(world, entity, ids,
                         Archetypes_add_components(world, world.frame, entity, Row_of(ids, entity)))


\* ------------------------------------------------------------------ stores
\* The variables of the schedule, the executors and the world.
coreVars == <<execVars, buildResult, schedVars, world, panicked, live, system, qres>>

engineVars == <<coreVars, blob2, bitsets>>

\* ---------------------------------------------------- C25: Column::swap_remove
\* The change stamps of the cells pushed.
ColumnStamps == {[added |-> 1, modified |-> 0], [added |-> 0, modified |-> 2]}

\* No operation on the column has panicked: the Blob holds length elements.
ColumnIntact(c) == Len(c.data) = c.length

\* Column::push_cell(cell).
ColumnPush(value, stamp) ==
    /\ ColumnIntact(col)
    /\ col.length < MaxColumnLen
    /\ col' = Column_push_cell(col, [data |-> value, frame |-> stamp])
    /\ UNCHANGED <<engineVars, blobs, drops, sparse, stored, resources, events, eventlog, commands>>

\* Column::swap_remove(index); a panic leaves the column as it is then.
ColumnSwapRemove(index) ==
    /\ ColumnIntact(col)
    /\ col' = Column_swap_remove(col, index).column
    /\ UNCHANGED <<engineVars, blobs, drops, sparse, stored, resources, events, eventlog, commands>>

NextColumn ==
    \/ \E value \in 0..(MaxColumnLen - 1), stamp \in ColumnStamps : ColumnPush(value, stamp)
    \/ \E index \in 0..MaxColumnLen : ColumnSwapRemove(index)

\* A column from Column::new under push_cell and swap_remove.
SpecColumn == InitSched /\ [][NextColumn]_vars

\* What swap_remove(i) has to return and leave for a column c of length n.
SwapRemoved(c, i, r) ==
    /\ r.result = "Some"
    /\ r.cell = [data |-> c.data[i + 1], frame |-> c.frames[i + 1]]
    /\ r.column.length = c.length - 1
    /\ Len(r.column.data) = c.length - 1
    /\ Len(r.column.frames) = c.length - 1
    /\ \A k \in 1..(c.length - 1) :
          /\ r.column.data[k] = IF k = i + 1 THEN c.data[c.length] ELSE c.data[k]
          /\ r.column.frames[k] = IF k = i + 1 THEN c.frames[c.length] ELSE c.frames[k]

\* C25: for every column of length n >= 1 and every index i < n, i = n-1
\* with n > 1 included, swap_remove(i) returns the element and the stamp
\* that were at i, leaves length n-1, puts the former last element and its
\* stamp at i when i < n-1, and leaves every other position unchanged.
C25_SwapRemoveReturnsAndCompacts ==
    ColumnIntact(col) =>
        \A i \in 0..(col.length - 1) : SwapRemoved(col, i, Column_swap_remove(col, i))


\* ------------------------------------------------------ C26: drop accounting
\* The Blobs and the other one of the two.
BlobNames == {"a", "b"}

OtherBlob(t) == IF t = "a" THEN "b" ELSE "a"

\* The elements a Blob holds: positions 0..length-1 of its buffer.
Blob_elements(blob) == SubSeq(blob.data, 1, blob.length)

\* The drop function called once on every element of the sequence xs.
Dropped(d, xs) ==
    [x \in 1..Len(d) |-> d[x] + Cardinality({k \in 1..Len(xs) : xs[k] = x})]

\* Blob::push and Blob::push_cell: the value, or the bytes of the cell, are
\* copied to position length; push_cell clears the drop of the cell, so
\* dropping the emptied cell calls nothing.
Blob_push_cell(blob, x) ==
    [blob EXCEPT !.data = Append(Blob_elements(blob), x), !.length = blob.length + 1]

\* Blob::remove_cell_checked: the bytes at index are drained into a
\* BlobCell that carries the drop function.
Blob_remove_cell_checked(blob, index) ==
    IF index >= blob.length
    THEN [result |-> "None", cell |-> 0, blob |-> blob]
    ELSE [result |-> "Some", cell |-> blob.data[index + 1],
          blob   |-> [blob EXCEPT
                         !.data = SubSeq(blob.data, 1, index) \o SubSeq(blob.data, index + 2, blob.length),
                         !.length = blob.length - 1]]

\* Blob::swap_remove_cell_checked on the elements. On the panic of the
\* splice the length is not decremented and the bytes of the last element
\* are still in the buffer at position length-1, where clear finds them.
Blob_swap_remove_cell(blob, index) ==
    LET r == Blob_swap_remove_cell_checked(Blob_elements(blob), blob.length, index)
    IN IF r.result = "panic"
       THEN [result |-> "panic", cell |-> 0, blob |-> [blob EXCEPT !.status = "panicked"]]
       ELSE [result |-> r.result, cell |-> r.cell,
             blob   |-> [blob EXCEPT !.data = r.data, !.length = r.length]]

\* Blob::extend and Blob::push_blob: the bytes of the other Blob are
\* appended and its length is set to 0 before it is dropped.
Blob_push_blob(blob, other) ==
    [blob  |-> [blob EXCEPT !.data = Blob_elements(blob) \o Blob_elements(other),
                            !.length = blob.length + other.length],
     other |-> [data |-> <<>>, length |-> 0, status |-> "dropped"],
     drops |-> <<>>]

\* Blob::insert_blob(index, other). An index out of bounds panics and the
\* unwinding drops the other Blob with its elements. Otherwise, only when
\* length > 1, the bytes from index up to the capacity are moved up by
\* other.length, which writes other.length elements beyond the allocation:
\* the call either goes on with the elements from index on moved up, or the
\* process ends there (overrun). The elements of other are copied to
\* index and length grows by other.length; with length = 1 nothing was
\* moved up, the element at 0 is overwritten and the position after the
\* copied elements holds bytes that are no element (0). The length of
\* other is left as it is, so dropping it at the end of the call runs
\* clear over all its elements.
Blob_insert_blob(blob, index, other, overrun) ==
    IF index >= blob.length
    THEN [blob  |-> [blob EXCEPT !.status = "panicked"],
          other |-> [data |-> <<>>, length |-> 0, status |-> "dropped"],
          drops |-> Blob_elements(other)]
    ELSE IF blob.length > 1 /\ other.length > 0 /\ overrun
    THEN [blob  |-> [blob EXCEPT !.status = "aborted"],
          other |-> [other EXCEPT !.status = "aborted"],
          drops |-> <<>>]
    ELSE [blob  |-> [blob EXCEPT
                       !.data = IF blob.length > 1
                                THEN SubSeq(blob.data, 1, index) \o Blob_elements(other)
                                         \o SubSeq(blob.data, index + 1, blob.length)
                                ELSE IF other.length > 0
                                THEN Blob_elements(other) \o <<0>>
                                ELSE Blob_elements(blob),
                       !.length = blob.length + other.length],
          other |-> [data |-> <<>>, length |-> 0, status |-> "dropped"],
          drops |-> Blob_elements(other)]

\* Blob::clear: the drop function on positions 0..length-1, then no element.
Blob_clear(blob) ==
    [blob  |-> [blob EXCEPT !.data = <<>>, !.length = 0],
     drops |-> Blob_elements(blob)]

blobUnchanged == <<engineVars, col, sparse, stored, resources, events, eventlog, commands>>

\* The Blob is alive and no element has been dropped twice; what the
\* program does after a double drop is undefined.
BlobUsable(t) ==
    /\ blobs[t].status = "alive"
    /\ \A x \in 1..Len(drops) : drops[x] <= 1

\* Blob::new for a Blob that was dropped or moved away.
BlobNew(t) ==
    /\ blobs[t].status = "dropped"
    /\ blobs' = [blobs EXCEPT ![t] = Blob_new]
    /\ UNCHANGED <<blobUnchanged, drops>>

\* Blob::push(value) or Blob::push_cell(BlobCell::new(value)) of a new value.
BlobPush(t) ==
    /\ BlobUsable(t)
    /\ Len(drops) < MaxElements
    /\ blobs' = [blobs EXCEPT ![t] = Blob_push_cell(blobs[t], Len(drops) + 1)]
    /\ drops' = Append(drops, 0)
    /\ UNCHANGED blobUnchanged

\* What is done with a removed cell: it is dropped (Drop for BlobCell calls
\* the drop function on its bytes), or pushed to the other Blob.
Taken(t, r, keep) ==
    IF r.result # "Some"
    THEN /\ blobs' = [blobs EXCEPT ![t] = r.blob]
         /\ UNCHANGED drops
    ELSE IF keep
    THEN /\ blobs' = [blobs EXCEPT ![t] = r.blob,
                                   ![OtherBlob(t)] = Blob_push_cell(blobs[OtherBlob(t)], r.cell)]
         /\ UNCHANGED drops
    ELSE /\ blobs' = [blobs EXCEPT ![t] = r.blob]
         /\ drops' = Dropped(drops, <<r.cell>>)

\* Column::remove / Blob::remove_cell_checked(index).
BlobRemove(t, index, keep) ==
    /\ BlobUsable(t)
    /\ keep => blobs[OtherBlob(t)].status = "alive"
    /\ Taken(t, Blob_remove_cell_checked(blobs[t], index), keep)
    /\ UNCHANGED blobUnchanged

\* Column::swap_remove / Blob::swap_remove_cell_checked(index).
BlobSwapRemove(t, index, keep) ==
    /\ BlobUsable(t)
    /\ keep => blobs[OtherBlob(t)].status = "alive"
    /\ Taken(t, Blob_swap_remove_cell(blobs[t], index), keep)
    /\ UNCHANGED blobUnchanged

\* The two Blobs and the drop calls after an operation that took the other.
Merged(t, r) ==
    /\ blobs' = [blobs EXCEPT ![t] = r.blob, ![OtherBlob(t)] = r.other]
    /\ drops' = Dropped(drops, r.drops)

\* Blob::extend(other) and Blob::push_blob(other).
BlobPushBlob(t) ==
    /\ BlobUsable(t)
    /\ blobs[OtherBlob(t)].status = "alive"
    /\ Merged(t, Blob_push_blob(blobs[t], blobs[OtherBlob(t)]))
    /\ UNCHANGED blobUnchanged

\* Blob::insert_blob(index, other).
BlobInsertBlob(t, index, overrun) ==
    /\ BlobUsable(t)
    /\ blobs[OtherBlob(t)].status = "alive"
    /\ Merged(t, Blob_insert_blob(blobs[t], index, blobs[OtherBlob(t)], overrun))
    /\ UNCHANGED blobUnchanged

\* Blob::clear.
BlobClear(t) ==
    /\ BlobUsable(t)
    /\ blobs' = [blobs EXCEPT ![t] = Blob_clear(blobs[t]).blob]
    /\ drops' = Dropped(drops, Blob_clear(blobs[t]).drops)
    /\ UNCHANGED blobUnchanged

\* Drop for Blob: clear, and the Blob is gone.
BlobDrop(t) ==
    /\ blobs[t].status \in {"alive", "panicked"}
    /\ blobs' = [blobs EXCEPT ![t] = [Blob_clear(blobs[t]).blob EXCEPT !.status = "dropped"]]
    /\ drops' = Dropped(drops, Blob_clear(blobs[t]).drops)
    /\ UNCHANGED blobUnchanged

NextBlob ==
    \/ \E t \in BlobNames : BlobNew(t)
    \/ \E t \in BlobNames : BlobPush(t)
    \/ \E t \in BlobNames, index \in 0..MaxElements, keep \in BOOLEAN : BlobRemove(t, index, keep)
    \/ \E t \in BlobNames, index \in 0..MaxElements, keep \in BOOLEAN : BlobSwapRemove(t, index, keep)
    \/ \E t \in BlobNames : BlobPushBlob(t)
    \/ \E t \in BlobNames, index \in 0..MaxElements, overrun \in BOOLEAN : BlobInsertBlob(t, index, overrun)
    \/ \E t \in BlobNames : BlobClear(t)
    \/ \E t \in BlobNames : BlobDrop(t)

\* Two Blobs of a type with a drop function under the buffer operations.
SpecBlob == InitSched /\ [][NextBlob]_vars

\* A Blob that was not dropped holds the element.
HeldBy(x) ==
    {t \in BlobNames : blobs[t].status # "dropped" /\ x \in Elements(Blob_elements(blobs[t]))}

\* C26: in every reachable state the drop function has been called exactly
\* once on every element that was in a Blob when it was destroyed or
\* cleared and on every removed element that was discarded, and not at all
\* on an element that a Blob holds, moved there from another Blob or not.
C26_DropCalledOncePerDiscardedElement ==
    \A x \in 1..Len(drops) : drops[x] = IF HeldBy(x) # {} THEN 0 ELSE 1


\* ----------------------------------------------------------- C27: SparseSet
\* SparseArray::get and SparseArray::contains: the slot of the index, None
\* beyond the end. None is -1 in a slot of dense indices.
SparseArray_get(values, index) ==
    IF index < Len(values) THEN values[index + 1] ELSE -1

\* SparseArray::insert: the Vec is resized with None up to the index.
SparseArray_insert(values, index, value) ==
    [k \in 1..(IF index + 1 > Len(values) THEN index + 1 ELSE Len(values)) |->
        IF k = index + 1 THEN value ELSE IF k <= Len(values) THEN values[k] ELSE -1]

\* SparseArray::remove: take() of the slot.
SparseArray_remove(values, index) ==
    [k \in 1..Len(values) |-> IF k = index + 1 THEN -1 ELSE values[k]]

\* SparseSet::contains.
SparseSet_contains(set, index) == SparseArray_get(set.sparse, index) # -1

\* SparseSet::get: values[*index] for the dense index the sparse slot
\* holds, which panics when that index is beyond the values. The values
\* are 1, 2, ..; None is 0 here and the panic is -1.
SparseSet_get(set, index) ==
    IF SparseArray_get(set.sparse, index) = -1
    THEN 0
    ELSE IF SparseArray_get(set.sparse, index) < Len(set.values)
    THEN set.values[SparseArray_get(set.sparse, index) + 1]
    ELSE -1

\* SparseSet::insert: the value of a key that has a sparse slot is replaced
\* in place (values[*index] panics beyond the values), a new key is pushed.
SparseSet_insert(set, index, value) ==
    IF SparseArray_get(set.sparse, index) # -1
    THEN IF SparseArray_get(set.sparse, index) < Len(set.values)
         THEN [set EXCEPT !.values[SparseArray_get(set.sparse, index) + 1] = value]
         ELSE [set EXCEPT !.panicked = TRUE]
    ELSE [set EXCEPT !.values  = Append(set.values, value),
                     !.indices = Append(set.indices, index),
                     !.sparse  = SparseArray_insert(set.sparse, index, Len(set.values))]

\* The swap_remove of values and indices at the dense index, which panics
\* beyond the values, and the sparse slot of the key moved there set to it.
SparseSet_swap_remove(set, dense, sp) ==
    IF dense >= Len(set.values)
    THEN [set EXCEPT !.sparse = sp, !.panicked = TRUE]
    ELSE [set EXCEPT
            !.values  = Vec_swap_remove(set.values, dense + 1),
            !.indices = Vec_swap_remove(set.indices, dense + 1),
            !.sparse  = IF dense # Len(set.values) - 1
                           /\ SparseArray_get(sp, set.indices[Len(set.indices)]) # -1
                        THEN SparseArray_insert(sp, set.indices[Len(set.indices)], dense)
                        ELSE sp]

\* SparseSet::remove: the sparse slot is taken, then the swap_remove.
SparseSet_remove(set, index) ==
    IF SparseArray_get(set.sparse, index) = -1
    THEN set
    ELSE SparseSet_swap_remove(set, SparseArray_get(set.sparse, index),
                               SparseArray_remove(set.sparse, index))

\* SparseSet::remove_at(dense): the swap_remove only; the sparse slot of
\* the removed key is not touched.
SparseSet_remove_at(set, dense) ==
    IF dense >= Len(set.values) THEN set ELSE SparseSet_swap_remove(set, dense, set.sparse)

\* SparseSet::drain, the iterator consumed or dropped: indices and values
\* are emptied; the sparse array is not touched.
SparseSet_drain(set) == [set EXCEPT !.values = <<>>, !.indices = <<>>]

\* SparseSet::clear.
SparseSet_clear(set) == SparseSet_new

SparseKeys == 0..(MaxKeys - 1)

sparseUnchanged == <<engineVars, col, blobs, drops, resources, events, eventlog, commands>>

\* SparseSet::insert(index, value); stored records the value (0 is none).
SparseInsert(index, value) ==
    /\ ~sparse.panicked
    /\ sparse' = SparseSet_insert(sparse, index, value)
    /\ stored' = [stored EXCEPT ![index] = value]
    /\ UNCHANGED sparseUnchanged

SparseRemove(index) ==
    /\ ~sparse.panicked
    /\ sparse' = SparseSet_remove(sparse, index)
    /\ stored' = [stored EXCEPT ![index] = 0]
    /\ UNCHANGED sparseUnchanged

SparseRemoveAt(dense) ==
    /\ ~sparse.panicked
    /\ sparse' = SparseSet_remove_at(sparse, dense)
    /\ stored' = IF dense < Len(sparse.indices)
                 THEN [stored EXCEPT ![sparse.indices[dense + 1]] = 0]
                 ELSE stored
    /\ UNCHANGED sparseUnchanged

SparseDrain ==
    /\ ~sparse.panicked
    /\ sparse' = SparseSet_drain(sparse)
    /\ stored' = [k \in SparseKeys |-> 0]
    /\ UNCHANGED sparseUnchanged

SparseClear ==
    /\ ~sparse.panicked
    /\ sparse' = SparseSet_clear(sparse)
    /\ stored' = [k \in SparseKeys |-> 0]
    /\ UNCHANGED sparseUnchanged

NextSparse ==
    \/ \E index \in SparseKeys, value \in 1..MaxValues : SparseInsert(index, value)
    \/ \E index \in SparseKeys : SparseRemove(index)
    \/ \E dense \in 0..MaxKeys : SparseRemoveAt(dense)
    \/ SparseDrain
    \/ SparseClear

\* A SparseSet from SparseSet::new under its operations.
SpecSparse == InitSched /\ [][NextSparse]_vars

\* C27: after any sequence of insert, remove, remove_at, drain and clear,
\* contains(k) is true exactly for the keys stored, and get(k) returns the
\* value most recently inserted for k.
C27_ContainsAndGetAgreeWithStored ==
    \A k \in SparseKeys :
        /\ SparseSet_contains(sparse, k) <=> stored[k] # 0
        /\ stored[k] # 0 => SparseSet_get(sparse, k) = stored[k]


\* ------------------------------------------------------------ C28: resources
\* The resource types (their TypeIds) and the values of a resource; a cell
\* of the SparseArray holds the value, -1 is None.
ResourceTypes == 0..(MaxResourceTypes - 1)

ResourceValues == 1..MaxResourceValues

\* Resources::register: a type that is not in the map gets the id
\* resources.len(), and reserve(id) resizes only when id > len, so the
\* array does not grow.
Resources_register(res, R) ==
    IF R \in DOMAIN res.map
    THEN res
    ELSE [res EXCEPT !.map = HashMap_insert(res.map, R, Len(res.resources))]

\* Resources::add: for a type that is in the map the id is returned and
\* the resource is dropped; otherwise the cell is inserted at id
\* resources.len().
Resources_add(res, R, resource) ==
    IF R \in DOMAIN res.map
    THEN res
    ELSE [map       |-> HashMap_insert(res.map, R, Len(res.resources)),
          resources |-> SparseArray_insert(res.resources, Len(res.resources), resource)]

\* Resources::remove: the cell at the id of the type is taken; the type
\* stays in the map. The value is 0 for None.
Resources_remove(res, R) ==
    IF R \notin DOMAIN res.map \/ SparseArray_get(res.resources, res.map[R]) = -1
    THEN [value |-> 0, res |-> res]
    ELSE [value |-> SparseArray_get(res.resources, res.map[R]),
          res   |-> [res EXCEPT !.resources = SparseArray_remove(res.resources, res.map[R])]]

resourceUnchanged == <<engineVars, col, blobs, drops, sparse, stored, events, eventlog, commands>>

\* World::register_resource::<R>().
ResourceRegister(R) ==
    /\ resources' = Resources_register(resources, R)
    /\ UNCHANGED resourceUnchanged

\* World::add_resource(resource).
ResourceAdd(R, resource) ==
    /\ resources' = Resources_add(resources, R, resource)
    /\ UNCHANGED resourceUnchanged

\* World::remove_resource::<R>().
ResourceRemove(R) ==
    /\ resources' = Resources_remove(resources, R).res
    /\ UNCHANGED resourceUnchanged

NextResources ==
    \/ \E R \in ResourceTypes : ResourceRegister(R)
    \/ \E R \in ResourceTypes, resource \in ResourceValues : ResourceAdd(R, resource)
    \/ \E R \in ResourceTypes : ResourceRemove(R)

\* The resources of a new World under register, add and remove.
SpecResources == InitSched /\ [][NextResources]_vars

\* remove_resource::<R>() twice on the resources add_resource(r) left.
AddThenRemoveTwice_of(first, R) == <<first.value, Resources_remove(first.res, R).value>>

AddThenRemoveTwice(res, R, resource) ==
    AddThenRemoveTwice_of(Resources_remove(Resources_add(res, R, resource), R), R)

\* C28: in every reachable state of the world's resources, for every
\* resource type R and value r, add_resource(r) followed by
\* remove_resource::<R>() returns Some(r), and a second
\* remove_resource::<R>() returns None.
C28_AddThenRemoveReturnsTheResource ==
    \A R \in ResourceTypes, resource \in ResourceValues :
        AddThenRemoveTwice(resources, R, resource) = <<resource, 0>>


\* --------------------------------------------------------------- C29: events
\* An update that appends the write buffer to the read buffer.
Events_update_keeping_read(ev) == [write |-> <<>>, read |-> ev.read \o ev.write]

\* Events::update: the write buffer becomes the read buffer and is left
\* empty (std::mem::take).
Events_update(ev) == [write |-> <<>>, read |-> ev.write]

\* EventWriter::send: the event is pushed to the write buffer.
EventWriter_send(ev, event) == [ev EXCEPT !.write = Append(ev.write, event)]

\* EventReader: from index 0 it yields read[index] until index reaches
\* read.len(), so a reader run to its end yields the read buffer in order.
RECURSIVE EventReader_collect(_, _)
EventReader_collect(ev, index) ==
    IF index < Len(ev.read)
    THEN <<ev.read[index + 1]>> \o EventReader_collect(ev, index + 1)
    ELSE <<>>

eventUnchanged == <<engineVars, col, blobs, drops, sparse, stored, resources, commands>>

\* EventWriter::send of the next event; the events are numbered in send
\* order.
EventSend ==
    /\ Len(eventlog) < MaxEventCalls
    /\ events' = EventWriter_send(events,
                     Cardinality({k \in 1..Len(eventlog) : eventlog[k] = "send"}) + 1)
    /\ eventlog' = Append(eventlog, "send")
    /\ UNCHANGED eventUnchanged

\* Events::update.
EventUpdate ==
    /\ Len(eventlog) < MaxEventCalls
    /\ events' = Events_update(events)
    /\ eventlog' = Append(eventlog, "update")
    /\ UNCHANGED eventUnchanged

NextEvents == EventSend \/ EventUpdate

\* An Events<E> from Events::new under send and update.
SpecEvents == InitSched /\ [][NextEvents]_vars


\* The positions of the updates in the calls made so far.
UpdatesAt == {k \in 1..Len(eventlog) : eventlog[k] = "update"}

\* The position of the last update at or before position k, 0 when none.
LastUpdate(k) ==
    IF \E u \in UpdatesAt : u <= k
    THEN CHOOSE u \in UpdatesAt : u <= k /\ \A v \in UpdatesAt : v <= k => v <= u
    ELSE 0

\* The number of events sent in the first k calls.
SentBy(k) == Cardinality({h \in 1..k : eventlog[h] = "send"})

\* The events sent between the previous update and the last one, in send
\* order; none before the first update.
SentInLastFrame ==
    [i \in 1..(SentBy(LastUpdate(Len(eventlog))) - SentBy(LastUpdate(LastUpdate(Len(eventlog)) - 1))) |->
        SentBy(LastUpdate(LastUpdate(Len(eventlog)) - 1)) + i]

\* C29: in every reachable state a reader yields exactly the events that
\* were sent between the previous update and the last update, in send
\* order: an event is not yielded before the update that follows its send,
\* is yielded after it, and is no longer yielded after one further update.
C29_ReaderYieldsTheEventsOfTheLastFrame ==
    EventReader_collect(events, 0) = SentInLastFrame

\* Two updates have happened; the reader yields two events while an older
\* event is no longer yielded and a newer one is not yielded yet.
C29_Witness ==
    /\ Cardinality(UpdatesAt) >= 2
    /\ Len(EventReader_collect(events, 0)) >= 2
    /\ EventReader_collect(events, 0)[1] > 1
    /\ events.write # <<>>


\* -------------------------------------------------------------- C30: commands
CommandSystems == 0..(MaxCommandSystems - 1)

\* Commands::add through CommandBuffer::add: the command is pushed to the
\* Commands of the system. The commands of a system are numbered in
\* enqueue order.
CommandBuffer_add(cmds, s, command) ==
    [cmds EXCEPT !.state[s] = Append(cmds.state[s], command)]

\* SystemArg::apply of CommandBuffer: the Commands of the system are
\* drained and executed on the world in order.
CommandBuffer_apply(cmds, s) ==
    [cmds EXCEPT !.state[s] = <<>>, !.applied = cmds.applied \o cmds.state[s]]

\* The commands the system has enqueued so far.
Enqueued(cmds, s) ==
    Len(cmds.state[s]) + Cardinality({k \in 1..Len(cmds.applied) : cmds.applied[k][1] = s})

\* The commands enqueued so far, by system and number.
AllEnqueued(cmds) ==
    UNION {{<<s, n>> : n \in 1..Enqueued(cmds, s)} : s \in CommandSystems}

\* A system of the phase whose executor Systems::run has invoked enqueues
\* a command through its CommandBuffer.
CommandBufferAdd(s) ==
    /\ schedpc = "running"
    /\ execlog # <<>>
    /\ Cardinality(AllEnqueued(commands)) < MaxCommands
    /\ commands' = CommandBuffer_add(commands, s, <<s, Enqueued(commands, s) + 1>>)
    /\ UNCHANGED <<engineVars, col, blobs, drops, sparse, stored, resources, events, eventlog>>

\* The schedule is configured, built and run; the systems of the phase
\* that runs enqueue commands. Systems::run goes from one phase to the
\* next (RunStep) and returns (RunReturn) without a call of
\* SystemArg::apply, which has no caller.
NextCommands ==
    \/ AddPhase
    \/ \E main, sub \in 0..MaxPhases : AddSubPhase(main, sub)
    \/ SchedBuild
    \/ \E phase \in 0..MaxPhases : RunCall(phase)
    \/ RunStep
    \/ RunReturn
    \/ \E s \in CommandSystems : CommandBufferAdd(s)

SpecCommands == InitSched /\ [][NextCommands]_vars

\* The commands after apply for every system, in the order of the systems.
RECURSIVE ApplyAll(_, _)
ApplyAll(cmds, s) ==
    IF s >= MaxCommandSystems THEN cmds ELSE ApplyAll(CommandBuffer_apply(cmds, s), s + 1)

\* C30: at every phase boundary (Systems::run goes on to the next phase or
\* returns) every command the systems have enqueued has been applied to
\* the world exactly once, the commands of one system in enqueue order:
\* no Commands holds a command, and the applied commands are those applied
\* before followed by the enqueued ones.
C30_CommandsAppliedAtPhaseBoundary ==
    [][((RunStep \/ RunReturn) /\ execlog # <<>>) => commands' = ApplyAll(commands, 0)]_vars


\* ------------------------------------------------------ C31: core::blob::v2
\* size_of::<T>() of the element type of the Blob (i32 in v2::tests).
ElemSize == 4

\* The longest v2::Blob, in elements.
MaxBlob2Len == 5

Blob2Values == 1..MaxValues

\* The capacity of a Vec<u8> of capacity cap after resize(len, 0): unchanged
\* when len fits, else grown by RawVec to the larger of twice the capacity
\* and len, and to 8 bytes at least.
Vec_resize_capacity(cap, len) ==
    IF len <= cap THEN cap
    ELSE IF 2 * cap >= len /\ 2 * cap >= 8 THEN 2 * cap
    ELSE IF len >= 8 THEN len
    ELSE 8

\* v2::Blob::len: data.len() / size.
Blob2_len(b) == (Len(b.data) * ElemSize) \div ElemSize

\* v2::Blob::get(index): None (0) when the offset is beyond the last element.
Blob2_get(b, index) ==
    IF b.data = <<>> \/ index * ElemSize > Len(b.data) * ElemSize - ElemSize
    THEN 0
    ELSE b.data[index + 1]

\* v2::Blob::push(value): resize by one element and write it at the old end.
Blob2_push(b, value) ==
    [b EXCEPT !.data = Append(b.data, value),
              !.cap = Vec_resize_capacity(b.cap, (Len(b.data) + 1) * ElemSize)]

\* v2::Blob::append(values): resize by values.len() elements and copy them
\* to the old end.
Blob2_append(b, values) ==
    [b EXCEPT !.data = [k \in 1..(Len(b.data) + Len(values)) |->
                           IF k <= Len(b.data) THEN b.data[k]
                           ELSE values[k - Len(b.data)]],
              !.cap = Vec_resize_capacity(b.cap, (Len(b.data) + Len(values)) * ElemSize)]

\* v2::Blob::insert(index, value) on a Blob of at least one element and
\* index below its length: resize by one element, ptr::copy of
\* data.len() - offset bytes (the length after the resize) from offset to
\* offset + size, write value at offset. The copy ends one element past the
\* new length; when that is past the capacity it writes outside the
\* allocation and the outcome is undefined: overrun chooses between the
\* write going unnoticed and the process ending.
Blob2_insert_of(b, index, value, cap, overrun) ==
    IF (Len(b.data) + 2) * ElemSize > cap /\ overrun
    THEN [b EXCEPT !.status = "aborted"]
    ELSE [b EXCEPT !.data = [k \in 1..(Len(b.data) + 1) |->
                                IF k - 1 < index THEN b.data[k]
                                ELSE IF k - 1 = index THEN value
                                ELSE b.data[k - 1]],
                   !.cap = cap]

Blob2_insert(b, index, value, overrun) ==
    Blob2_insert_of(b, index, value,
                    Vec_resize_capacity(b.cap, (Len(b.data) + 1) * ElemSize), overrun)

\* v2::Blob::remove(index), index below the length: read the element and
\* drain its bytes.
Blob2_remove(b, index) ==
    [b EXCEPT !.data = [k \in 1..(Len(b.data) - 1) |->
                           IF k - 1 < index THEN b.data[k] ELSE b.data[k + 1]],
              !.ret = b.data[index + 1]]

\* v2::Blob::swap_remove(index), index below the length: read the element,
\* copy the last element over it unless it is the last, set_len.
Blob2_swap_remove(b, index) ==
    [b EXCEPT !.data = [k \in 1..(Len(b.data) - 1) |->
                           IF k - 1 = index THEN b.data[Len(b.data)] ELSE b.data[k]],
              !.ret = b.data[index + 1]]

\* The reference list: Vec::insert, Vec::remove and Vec::swap_remove.
List_insert(list, index, value) ==
    SubSeq(list, 1, index) \o <<value>> \o SubSeq(list, index + 1, Len(list))

List_remove(list, index) ==
    SubSeq(list, 1, index) \o SubSeq(list, index + 2, Len(list))

List_swap_remove(list, index) ==
    IF index = Len(list) - 1 THEN SubSeq(list, 1, index)
    ELSE SubSeq(list, 1, index) \o <<list[Len(list)]>> \o
             SubSeq(list, index + 2, Len(list) - 1)

blob2Unchanged == <<coreVars, col, blobs, drops, sparse, stored, resources, events, eventlog, commands, bitsets>>

Blob2Push(value) ==
    /\ blob2.status = "alive"
    /\ Len(blob2.list) < MaxBlob2Len
    /\ blob2' = [Blob2_push(blob2, value) EXCEPT !.list = Append(blob2.list, value),
                                                 !.ret = 0, !.expected = 0]
    /\ UNCHANGED blob2Unchanged

Blob2Append(values) ==
    /\ blob2.status = "alive"
    /\ Len(blob2.list) + Len(values) <= MaxBlob2Len
    /\ blob2' = [Blob2_append(blob2, values) EXCEPT !.list = blob2.list \o values,
                                                    !.ret = 0, !.expected = 0]
    /\ UNCHANGED blob2Unchanged

Blob2Insert(index, value, overrun) ==
    /\ blob2.status = "alive"
    /\ Len(blob2.list) < MaxBlob2Len
    /\ index < Len(blob2.list)
    /\ blob2' = [Blob2_insert(blob2, index, value, overrun) EXCEPT
                     !.list = List_insert(blob2.list, index, value),
                     !.ret = 0, !.expected = 0]
    /\ UNCHANGED blob2Unchanged

Blob2Remove(index) ==
    /\ blob2.status = "alive"
    /\ index < Len(blob2.list)
    /\ blob2' = [Blob2_remove(blob2, index) EXCEPT
                     !.list = List_remove(blob2.list, index),
                     !.expected = blob2.list[index + 1]]
    /\ UNCHANGED blob2Unchanged

Blob2SwapRemove(index) ==
    /\ blob2.status = "alive"
    /\ index < Len(blob2.list)
    /\ blob2' = [Blob2_swap_remove(blob2, index) EXCEPT
                     !.list = List_swap_remove(blob2.list, index),
                     !.expected = blob2.list[index + 1]]
    /\ UNCHANGED blob2Unchanged

NextBlob2 ==
    \/ \E value \in Blob2Values : Blob2Push(value)
    \/ \E values \in [1..2 -> Blob2Values] : Blob2Append(values)
    \/ \E index \in 0..(MaxBlob2Len - 1), value \in Blob2Values, overrun \in BOOLEAN :
           Blob2Insert(index, value, overrun)
    \/ \E index \in 0..(MaxBlob2Len - 1) : Blob2Remove(index)
    \/ \E index \in 0..(MaxBlob2Len - 1) : Blob2SwapRemove(index)

\* A v2::Blob from Blob::new::<T> under push, append, insert, remove and
\* swap_remove with every index below the length.
SpecBlob2 == InitSched /\ [][NextBlob2]_vars

\* C31: after any sequence of push, append, insert(i, v), remove(i) and
\* swap_remove(i) with i below the length, the v2::Blob is usable, len()
\* is the length of the reference list, get(i) is its i-th element for
\* every i below the length, and remove and swap_remove returned the
\* element that was at i.
C31_Blob2BehavesAsASequence ==
    /\ blob2.status = "alive"
    /\ Blob2_len(blob2) = Len(blob2.list)
    /\ \A i \in 0..(Len(blob2.list) - 1) : Blob2_get(blob2, i) = blob2.list[i + 1]
    /\ blob2.ret = blob2.expected


\* ------------------------------------------- C32: the state after execute
\* C32: when ParallelExecutor::execute has returned, the shared state
\* (in-degrees, queue, completed) equals the state ParallelExecutor::new
\* made and every system has run exactly once in that call; and every
\* execute call, the first and every further one, starts from that state.
C32_ExecuteRestoresTheInitialState ==
    /\ []((mode = "Parallel" /\ mainpc = "returned") =>
              /\ state = ExecutionState_new(executor)
              /\ \A i \in Systems : count[i] = 1)
    /\ [][Execute => state = ExecutionState_new(executor)]_vars

\* execute has returned for a phase with a system that had to wait for
\* another one, and the state is the initial one again.
C32_Witness ==
    /\ mode = "Parallel"
    /\ mainpc = "returned"
    /\ \E i \in Systems : executor.dependencies[i] > 0
    /\ \A i \in Systems : status[i] = "done"
    /\ state = ExecutionState_new(executor)


\* ------------------------------------------- queries that project `&mut C`
\* size_of::<C>() of the component type registered with the id: the first
\* component type has one byte, the next one two, and so on.
Component_size(id) == id + 1

\* size_of::<ObjectTracker>(): two Frames of type u32.
TrackerSize == 8

\* Ptr::get_mut(index): Some when index < size_of::<T>(), with size the
\* size of T.
Ptr_get_mut(size, index) == index < size

\* <&mut C as BaseQuery>::get on row `row` of the column at position c of
\* archetype a: components.get_mut(row).expect(..), then
\* frames.get_mut(row).unwrap().modified = current_frame.
WriteQuery_get(w, id, a, c, row, current_frame) ==
    IF ~Ptr_get_mut(Component_size(id), row) \/ ~Ptr_get_mut(TrackerSize, row)
    THEN [w |-> w, panic |-> TRUE]
    ELSE [w |-> [w EXCEPT !.archetypes[a].table.columns[c].column.frames[row + 1].modified =
                              current_frame],
          panic |-> FALSE]

\* `for item in query.iter()` for Query<&mut C, F>: QueryIter::next
\* evaluates F::get on the row and then returns
\* filter.then_some(Q::get(state, entity, row)); the argument of then_some
\* is evaluated whatever the filter said.
RECURSIVE WriteIter_collect(_, _, _, _, _, _, _, _, _)
\* next() once Q::get has run on the row.
WriteIter_got(got, id, archetypes, filter, current_frame, system_frame, archetype, position, items, entity, f) ==
    IF got.panic
    THEN [w |-> got.w, items |-> items, panic |-> TRUE]
    ELSE IF f = "false"
    THEN [w |-> got.w, items |-> items, panic |-> FALSE]
    ELSE WriteIter_collect(got.w, id, archetypes, filter, current_frame,
             system_frame, archetype, position + 1, Append(items, entity))

\* next() once the filter has been evaluated on the row.
WriteIter_filtered(w, id, archetypes, filter, current_frame, system_frame, archetype, position, items, table, f) ==
    IF f = "panic"
    THEN [w |-> w, items |-> items, panic |-> TRUE]
    ELSE WriteIter_got(
             WriteQuery_get(w, id, archetypes[archetype + 1] + 1,
                            Table_get_column(table, id), position - 1, current_frame),
             id, archetypes, filter, current_frame, system_frame, archetype,
             position, items, table.entities[position], f)

\* next() in the table of the current archetype.
WriteIter_row(w, id, archetypes, filter, current_frame, system_frame, archetype, position, items, table) ==
    IF position <= Len(table.entities)
    THEN WriteIter_filtered(w, id, archetypes, filter, current_frame,
             system_frame, archetype, position, items, table,
             Filter_get(filter, table, position - 1, current_frame, system_frame))
    ELSE WriteIter_collect(w, id, archetypes, filter, current_frame,
             system_frame, archetype + 1, 1, items)

WriteIter_collect(w, id, archetypes, filter, current_frame, system_frame, archetype, position, items) ==
    IF archetype >= Len(archetypes)
    THEN [w |-> w, items |-> items, panic |-> FALSE]
    ELSE WriteIter_row(w, id, archetypes, filter, current_frame, system_frame,
             archetype, position, items,
             w.archetypes[archetypes[archetype + 1] + 1].table)

\* What the run of a system with Query<&mut C, F> leaves: the world with
\* the stamps written, and the query, the archetypes and the items.
WriteQuery_result(w, sys, id, filter, archetypes, collected) ==
    [w    |-> collected.w,
     qres |-> [kind          |-> "write",
               reads         |-> <<id>>,
               filter        |-> filter,
               archetypes    |-> archetypes,
               items         |-> collected.items,
               panic         |-> collected.panic,
               current_frame |-> w.frame,
               system_frame  |-> sys.frame]]

WriteQuery_iter(w, sys, id, filter, archetypes) ==
    WriteQuery_result(w, sys, id, filter, archetypes,
        WriteIter_collect(w, id, archetypes, filter, w.frame, sys.frame, 0, 1, <<>>))

\* System::execute with the one argument Query<&mut C, F>.
System_execute_write(w, sys, id, filter) ==
    WriteQuery_iter(w, sys, id, filter,
                    Archetypes_query(w, QueryState_new(<<id>>, filter)))

\* The system's run as a step of the world.
WriteExecuted(r) ==
    /\ world' = r.w
    /\ qres' = r.qres
    /\ panicked' = r.qres.panic

\* The executor runs the system of the query Query<&mut C, F>.
ExecuteWriteSystem(id, filter) ==
    /\ WorldHeld
    /\ system.built
    /\ WriteExecuted(System_execute_write(world, system, id, filter))
    /\ UNCHANGED <<otherVars, live, system>>

\* The filters of the write queries: none, or a change filter on the
\* component the query projects or on another one.
WriteFilters == {filter \in QueryFilters : filter.kind \in {"()", "Added", "Modified"}}

NextWrite ==
    \/ Register
    \/ Spawn
    \/ \E entity \in live, id \in ComponentIds : AddComponent(entity, id)
    \/ Update
    \/ BuildSystem
    \/ \E id \in ComponentIds, filter \in WriteFilters : ExecuteWriteSystem(id, filter)
    \/ SystemReturn

\* Systems with a Query<&mut C, F> over the world between its operations.
SpecWrite == InitSched /\ [][NextWrite]_vars


\* The step in which a system with a Query<&mut C, F> has run.
WriteRun == qres.kind = "none" /\ qres'.kind = "write"

\* C33: iterating a query that projects `&mut C` sets stamp.modified of C
\* to the current frame on exactly the rows it yields and leaves their
\* added stamp; every other stamp (the rows the filter rejected, the rows
\* never reached, the other components) is left as it was.
C33_WriteQueryStampsExactlyTheYieldedRows ==
    [][WriteRun =>
          \A entity \in live, id \in ComponentIds :
              IF id = qres'.reads[1] /\ \E i \in 1..Len(qres'.items) : qres'.items[i] = entity
              THEN StampOf(world', entity, id) =
                       [StampOf(world, entity, id) EXCEPT !.modified = world.frame]
              ELSE StampOf(world', entity, id) = StampOf(world, entity, id)]_vars

\* C34: a query projecting `&mut C` with no filter does not abort and
\* yields one item for every row of every matching archetype, in order.
C34_WriteQueryYieldsEveryRow ==
    (qres.kind = "write" /\ qres.filter.kind = "()") =>
        /\ ~qres.panic
        /\ qres.items = ExpectedItems(1)


\* ------------------------------------------------------ C35: resource ids
\* C35: after any sequence of register and add calls, distinct resource
\* types have distinct ResourceIds, and no call changes the id of a type
\* that has one.
C35_ResourceIdsAreDistinctAndStable ==
    /\ [](\A R \in DOMAIN resources.map, S \in DOMAIN resources.map :
              R # S => resources.map[R] # resources.map[S])
    /\ [][\A R \in DOMAIN resources.map :
              R \in DOMAIN resources'.map /\ resources'.map[R] = resources.map[R]]_vars

\* ------------------------------------------------- C36: add, then present
\* Resources::get: the value of the cell at the id of the type, 0 for None.
Resources_get(res, R) ==
    IF R \notin DOMAIN res.map \/ SparseArray_get(res.resources, res.map[R]) = -1
    THEN 0
    ELSE SparseArray_get(res.resources, res.map[R])

\* C36: in every reachable state of the world's resources, for every type
\* R that try_resource::<R>() finds no resource for and every value r,
\* try_resource::<R>() returns r after add_resource(r).
C36_AddedResourceIsPresent ==
    \A R \in ResourceTypes, resource \in ResourceValues :
        Resources_get(resources, R) = 0 =>
            Resources_get(Resources_add(resources, R, resource), R) = resource


\* ------------------------------------------------------- C37: id slots
\* The highest generation a slot reaches, and the longest free list.
MaxSlotGeneration == 3

MaxFreeList == 2

\* The handles Entities has issued so far: live, despawned or stale.
IssuedHandles ==
    {h \in [id : 0..(MaxEntityIds - 1), generation : 1..MaxSlotGeneration] :
        /\ h.id \in DOMAIN world.entities.generations
        /\ h.generation <= world.entities.generations[h.id]}

\* World::spawn, the entity it returned being live from then on.
SlotSpawned(spawned) ==
    /\ spawned.entity.id < MaxEntityIds
    /\ spawned.entity.generation <= MaxSlotGeneration
    /\ world' = spawned.w
    /\ live' = live \cup {spawned.entity}

SlotSpawn ==
    /\ WorldHeld
    /\ SlotSpawned(World_spawn(world))
    /\ UNCHANGED <<otherVars, panicked, system, qres>>

\* World::despawn through a handle that was issued: of a live entity, of
\* one already despawned, or a stale one.
SlotDespawn(entity) ==
    /\ Len(world.entities.free) < MaxFreeList
    /\ Despawn(entity)

NextSlots ==
    \/ SlotSpawn
    \/ \E entity \in IssuedHandles : SlotDespawn(entity)

\* A new world under spawn and despawn through issued handles.
SpecSlots == InitSched /\ [][NextSlots]_vars

\* C37: in every state reachable by spawn and despawn calls, no two live
\* entities have the same id.
C37_LiveEntitiesHaveDistinctIds ==
    \A e1 \in live, e2 \in live : e1 # e2 => e1.id # e2.id


\* ------------------------------------------------ C38: the other components
NoCell == [value |-> "none"]

\* The cell of component id of the entity: its value and its change stamp.
CellOf_at(table, c, p) ==
    IF c = 0 \/ p = 0 \/ p > Len(table.columns[c].column.data)
                       \/ p > Len(table.columns[c].column.frames)
    THEN NoCell
    ELSE [value |-> table.columns[c].column.data[p],
          stamp |-> table.columns[c].column.frames[p]]

CellOf(w, entity, id) ==
    IF entity \notin DOMAIN w.entity_map
    THEN NoCell
    ELSE CellOf_at(w.archetypes[w.entity_map[entity] + 1].table,
                   Table_get_column(w.archetypes[w.entity_map[entity] + 1].table, id),
                   Table_position(w.archetypes[w.entity_map[entity] + 1].table, entity))

\* The step left every cell as it was, but for those of the components ids
\* of the entity.
CellsKept(entity, ids) ==
    \A other \in live, id \in 0..(MaxComponents - 1) :
        (other # entity \/ id \notin ids) =>
            CellOf(world', other, id) = CellOf(world, other, id)

\* C38: add_component(e, C) and remove_component(e, C) leave the value and
\* the change stamp of every other component of e and of every component
\* of every other entity as they were, and so does despawn(e) for every
\* component of every other entity.
C38_OtherComponentsAreUntouched ==
    [][\A entity \in live :
          /\ \A id \in ComponentIds :
                /\ AddComponent(entity, id) => CellsKept(entity, {id})
                /\ RemoveComponent(entity, id) => CellsKept(entity, {id})
          /\ Despawn(entity) => CellsKept(entity, 0..(MaxComponents - 1))]_vars


\* ------------------------------------------ C39: one invocation per phase
\* C39: in one run(phase) call the executor of each phase is invoked at
\* most once: no phase index occurs twice among the invocations.
C39_EachPhaseInvokedAtMostOnce ==
    \A i \in 1..Len(execlog), j \in 1..Len(execlog) :
        i # j => execlog[i] # execlog[j]


\* ------------------------------------------------------------ C40: Bitset
\* The bits of a word of a Bitset (u64).
WordBits == 64

\* The words a Bitset of the model grows to, and the bits used in a word.
MaxWords == 2

MaxBits == 2

\* The indices the callers set and clear.
BitIndices == {word * WordBits + bit : word \in 0..(MaxWords - 1), bit \in 0..(MaxBits - 1)}

\* A word is the set of the positions of its one bits: a & b is the
\* intersection, a | (1 << bit) adds bit, and 0 is the empty set.
\* Bitset::set(index): resize to word + 1 words when the word is beyond
\* the Vec, then set the bit.
Bitset_set(bits, index) ==
    [w \in 1..(IF index \div WordBits >= Len(bits) THEN index \div WordBits + 1 ELSE Len(bits)) |->
        (IF w <= Len(bits) THEN bits[w] ELSE {}) \cup
        (IF w - 1 = index \div WordBits THEN {index % WordBits} ELSE {})]

\* Bitset::clear(index): nothing when the word is beyond the Vec.
Bitset_clear(bits, index) ==
    IF index \div WordBits < Len(bits)
    THEN [bits EXCEPT ![index \div WordBits + 1] = @ \ {index % WordBits}]
    ELSE bits

\* Bitset::get(index).
Bitset_get(bits, index) ==
    /\ index \div WordBits < Len(bits)
    /\ index % WordBits \in bits[index \div WordBits + 1]

\* Bitset::contains(other): false when other has more words; else all of
\* the zipped words satisfy a & b == b.
Bitset_contains(self, other) ==
    IF Len(other) > Len(self)
    THEN FALSE
    ELSE \A w \in 1..Len(self) : w <= Len(other) => self[w] \cap other[w] = other[w]

\* Bitset::intersects(other): false when other has more words; else any
\* of the zipped words satisfies a & b != 0.
Bitset_intersects(self, other) ==
    IF Len(other) > Len(self)
    THEN FALSE
    ELSE \E w \in 1..Len(self) : w <= Len(other) /\ self[w] \cap other[w] # {}

bitsetUnchanged == <<coreVars, col, blobs, drops, sparse, stored, resources, events, eventlog, commands, blob2>>

BitsetSet(t, index) ==
    /\ bitsets' = [bitsets EXCEPT ![t] = Bitset_set(bitsets[t], index)]
    /\ UNCHANGED bitsetUnchanged

BitsetClear(t, index) ==
    /\ bitsets' = [bitsets EXCEPT ![t] = Bitset_clear(bitsets[t], index)]
    /\ UNCHANGED bitsetUnchanged

\* Bitset::reset: the Vec is emptied.
BitsetReset(t) ==
    /\ bitsets' = [bitsets EXCEPT ![t] = <<>>]
    /\ UNCHANGED bitsetUnchanged

NextBitset ==
    \/ \E t \in {"a", "b"}, index \in BitIndices : BitsetSet(t, index)
    \/ \E t \in {"a", "b"}, index \in BitIndices : BitsetClear(t, index)
    \/ \E t \in {"a", "b"} : BitsetReset(t)

\* Two Bitsets from Bitset::new under set, clear and reset.
SpecBitset == InitSched /\ [][NextBitset]_vars

\* The indices set in a Bitset.
SetIn(bits) == {index \in BitIndices : Bitset_get(bits, index)}

\* C40: for any two Bitsets, whatever their word lengths, intersects is
\* true iff some index is set in both, and contains is true iff every
\* index set in other is set in self.
C40_ContainsAndIntersectsAreSetRelations ==
    \A s \in {"a", "b"}, o \in {"a", "b"} :
        /\ Bitset_intersects(bitsets[s], bitsets[o]) <=>
               (SetIn(bitsets[s]) \cap SetIn(bitsets[o]) # {})
        /\ Bitset_contains(bitsets[s], bitsets[o]) <=>
               (SetIn(bitsets[o]) \subseteq SetIn(bitsets[s]))

====
